---- MODULE Spec2Model ----
(***************************************************************************)
(* A model of pg-machinomy: the PL/pgSQL ledger of state updates, channel  *)
(* events and channel intents (src/unnamed/part_002, lines 1-1060) and the *)
(* JavaScript wrapper that calls it (src/pg-machinomy.js).                 *)
(*                                                                         *)
(* Every SQL function is an operator from the database (a record of the    *)
(* four tables) and the call's arguments to the SET of outcomes the call   *)
(* can have: [db |-> the tables afterwards, ret |-> what it returns].  An  *)
(* outcome set has more than one element where SQL leaves the result open  *)
(* (the order of rows that tie under ORDER BY).  A raised exception rolls  *)
(* the statement back: db is the database before the call.                 *)
(*                                                                         *)
(* A nullable column holds NULL (the empty tuple) or Some(v) (a 1-tuple).  *)
(* Row ids are positions in the table: bigserial gaps left by rolled back  *)
(* inserts are not modelled, the order of ids is.                          *)
(***************************************************************************)
EXTENDS Integers, Sequences, FiniteSets, TLC

VARIABLES
    state_updates,          \* table state_updates, in id order
    invalid_state_updates,  \* table invalid_state_updates, in id order
    channel_events,         \* table channel_events, in id order
    channel_intents,        \* table channel_intents, in id order
    now,                    \* the server clock read by now()
    ret,                    \* the last call: [op, arg, exc, val]
    session                 \* the calls of the concurrent sessions, in order of arrival

vars == <<state_updates, invalid_state_updates, channel_events,
          channel_intents, now, ret, session>>

---------------------------------------------------------------------------
(* Bounds of the model. *)

\* rows in channel_events plus channel_intents
MaxRows == 3

---------------------------------------------------------------------------
(* SQL NULL and nullable values. *)

NULL == <<>>

Some(v) == <<v>>

Val(o) == o[1]

\* coalesce(o, d)
Coalesce(o, d) == IF o = NULL THEN d ELSE Val(o)

SeqToSet(s) == {s[i] : i \in 1..Len(s)}

RECURSIVE SetToSeqs(_)
\* every enumeration of a finite set
SetToSeqs(S) ==
    IF S = {} THEN {<<>>}
    ELSE UNION {{<<x>> \o t : t \in SetToSeqs(S \ {x})} : x \in S}

---------------------------------------------------------------------------
(* JSON values and the casts between text and numeric. *)

JStr(s) == [type |-> "string", v |-> Some(s)]

JNum(n) == [type |-> "number", v |-> Some(n)]

JNull == [type |-> "null", v |-> NULL]

\* the numerals the model reads and writes: <<text, number>>
NumeralTable ==
    {<<"-2", -2>>, <<"-1", -1>>, <<"0", 0>>, <<"1", 1>>, <<"2", 2>>,
     <<"3", 3>>, <<"4", 4>>, <<"5", 5>>, <<"6", 6>>, <<"7", 7>>, <<"8", 8>>,
     <<"17", 17>>, <<"7890", 7890>>}

\* text::numeric, text::int, text::float
TextToNumeric(s) == (CHOOSE p \in NumeralTable : p[1] = s)[2]

\* numeric::text
NumericToText(n) == (CHOOSE p \in NumeralTable : p[2] = n)[1]

\* x::mcy_wei_to_js of a nullable numeric
mcy_wei_to_js(o) == IF o = NULL THEN NULL ELSE Some(NumericToText(Val(o)))

\* obj->field
JGet(obj, field) == IF field \in DOMAIN obj THEN obj[field] ELSE JNull

\* mcy_wei_from_js that takes a value that is no string for zero
wei_from_js_without_type_check(obj, field) ==
    LET val == JGet(obj, field) IN
    IF val.type = "string"
    THEN [exc |-> NULL, val |-> Some(TextToNumeric(Val(val.v)))]
    ELSE [exc |-> NULL, val |-> Some(0)]

\* mcy_wei_from_js(obj, field): [exc, val]
mcy_wei_from_js(obj, field) ==
    LET val == JGet(obj, field) IN
    IF val.type = "string"
    THEN [exc |-> NULL, val |-> Some(TextToNumeric(Val(val.v)))]
    ELSE [exc |-> Some("wei values must be text"), val |-> NULL]

\* obj->>field: the field as text, NULL for a missing field or a JSON null
JGetText(obj, field) ==
    LET val == JGet(obj, field) IN
    CASE val.type = "string" -> val.v
      [] val.type = "number" -> Some(NumericToText(Val(val.v)))
      [] OTHER -> NULL

\* mcy_not_null(obj, field): [exc, val], val the field as text
mcy_not_null(obj, field) ==
    LET res == JGetText(obj, field) IN
    IF res = NULL
    THEN [exc |-> Some(field \o " must not be null"), val |-> NULL]
    ELSE [exc |-> NULL, val |-> res]

\* the first exception among the results rs, NULL when none raised
FirstExc(rs) ==
    IF \A i \in 1..Len(rs) : rs[i].exc = NULL THEN NULL
    ELSE rs[CHOOSE i \in 1..Len(rs) :
              rs[i].exc # NULL /\ \A j \in 1..(i - 1) : rs[j].exc = NULL].exc

\* a nullable text cast to a number
CastNumeric(o) == IF o = NULL THEN NULL ELSE Some(TextToNumeric(Val(o)))

---------------------------------------------------------------------------
(* The tables. *)

\* the database a call runs against
DB ==
    [state_updates |-> state_updates,
     invalid_state_updates |-> invalid_state_updates,
     channel_events |-> channel_events,
     channel_intents |-> channel_intents,
     now |-> now]

EmptyDB ==
    [state_updates |-> <<>>, invalid_state_updates |-> <<>>,
     channel_events |-> <<>>, channel_intents |-> <<>>, now |-> 1]

\* the key of a channel in a JSON object or a row
ChanKey(r) ==
    [chain_id |-> r.chain_id, contract_id |-> r.contract_id,
     channel_id |-> r.channel_id]

\* EventRow taking block_is_valid from the event when it has one
event_row_with_given_validity(id, event) ==
    [id |-> id,
     chain_id |-> event.chain_id,
     contract_id |-> event.contract_id,
     channel_id |-> event.channel_id,
     ts |-> event.ts,
     block_number |-> event.block_number,
     block_hash |-> Some(event.block_hash),
     block_is_valid |->
         IF "block_is_valid" \in DOMAIN event
         THEN Some(event.block_is_valid) ELSE Some(TRUE),
     sender |-> event.sender,
     event_type |-> event.event_type,
     fields |-> event.fields]

\* the channel_events row an event is inserted as
EventRow(id, event) ==
    [id |-> id,
     chain_id |-> event.chain_id,
     contract_id |-> event.contract_id,
     channel_id |-> event.channel_id,
     ts |-> event.ts,
     block_number |-> event.block_number,
     block_hash |-> Some(event.block_hash),
     block_is_valid |-> Some(TRUE),
     sender |-> event.sender,
     event_type |-> event.event_type,
     fields |-> event.fields]

\* the channel_intents row an intent is inserted as
IntentRow(id, intent, ts) ==
    [id |-> id,
     chain_id |-> intent.chain_id,
     contract_id |-> intent.contract_id,
     channel_id |-> intent.channel_id,
     ts |-> ts,
     block_number |-> intent.block_number,
     block_hash |-> NULL,
     block_is_valid |-> NULL,
     sender |-> intent.sender,
     event_type |-> intent.event_type,
     fields |-> intent.fields]

---------------------------------------------------------------------------
(* Intent correlation. *)

\* IntentMatches without the comparison of channel_id
intent_matches_any_channel_id(ci, ce) ==
    /\ ci.chain_id = ce.chain_id
    /\ ci.contract_id = ce.contract_id
    /\ ci.block_number <= ce.block_number
    /\ ci.sender = ce.sender
    /\ ci.event_type = ce.event_type
    /\ ci.fields = ce.fields

\* the where clause shared by the trigger and mcy_get_intent_block_hash
IntentMatches(ci, ce) ==
    /\ ci.chain_id = ce.chain_id
    /\ ci.contract_id = ce.contract_id
    /\ ci.channel_id = ce.channel_id
    /\ ci.block_number <= ce.block_number
    /\ ci.sender = ce.sender
    /\ ci.event_type = ce.event_type
    /\ ci.fields = ce.fields

\* the row of a non-empty set of rows with the highest id
MaxIdRow(rows) == CHOOSE r \in rows : \A q \in rows : q.id <= r.id

\* mcy_get_intent_block_hash without its "ce.block_is_valid" condition
intent_block_hash_any_validity(events, intent) ==
    LET found == {ce \in SeqToSet(events) : IntentMatches(intent, ce)}
    IN  IF found = {} THEN NULL ELSE MaxIdRow(found).block_hash

mcy_get_intent_block_hash(events, intent) ==
    LET found == {ce \in SeqToSet(events) :
                     IntentMatches(intent, ce) /\ ce.block_is_valid = Some(TRUE)}
    IN  IF found = {} THEN NULL ELSE MaxIdRow(found).block_hash

\* the insert branch of the trigger without "ci.block_number <= NEW.block_number"
trigger_on_insert_any_block(intents, NEW_) ==
    [i \in 1..Len(intents) |->
        IF IntentMatches([intents[i] EXCEPT !.block_number = NEW_.block_number], NEW_)
        THEN [intents[i] EXCEPT !.block_hash = NEW_.block_hash]
        ELSE intents[i]]

\* the insert branch of the trigger updating the first matching intent only
trigger_on_insert_first_match(intents, NEW_) ==
    [i \in 1..Len(intents) |->
        IF /\ IntentMatches(intents[i], NEW_)
           /\ \A j \in 1..(i - 1) : ~ IntentMatches(intents[j], NEW_)
        THEN [intents[i] EXCEPT !.block_hash = NEW_.block_hash]
        ELSE intents[i]]

\* mcy_update_channel_intents_trigger, TG_OP = 'INSERT' (NEW_ is NEW): the intents afterwards
trigger_on_insert(intents, NEW_) ==
    [i \in 1..Len(intents) |->
        IF IntentMatches(intents[i], NEW_)
        THEN [intents[i] EXCEPT !.block_hash = NEW_.block_hash]
        ELSE intents[i]]

\* mcy_update_channel_intents_trigger, TG_OP = 'UPDATE' or 'DELETE', for one
\* row OLD_ (OLD): it runs after the statement, so it reads the events afterwards
trigger_on_update(events, intents, OLD_) ==
    [i \in 1..Len(intents) |->
        IF IntentMatches(intents[i], OLD_)
        THEN [intents[i] EXCEPT
                 !.block_hash = mcy_get_intent_block_hash(events, intents[i])]
        ELSE intents[i]]

RECURSIVE fire_update_triggers(_, _, _)
\* the row-level trigger fired for each updated row in turn
fire_update_triggers(events, intents, olds) ==
    IF olds = <<>> THEN intents
    ELSE fire_update_triggers(
             events, trigger_on_update(events, intents, Head(olds)), Tail(olds))

---------------------------------------------------------------------------
(* The events of a channel in canonical order. *)

\* the collation order of the block hashes the model uses
HashOrder == <<"a", "b">>

HashRank(h) == CHOOSE i \in 1..Len(HashOrder) : HashOrder[i] = h

\* a.block_hash sorts before b.block_hash: ascending, so NULLS LAST
HashLess(a, b) ==
    IF a.block_hash = NULL THEN FALSE
    ELSE IF b.block_hash = NULL THEN TRUE
    ELSE HashRank(Val(a.block_hash)) < HashRank(Val(b.block_hash))

\* a may come before b under order by block_number, block_hash, ts
OrderByLE(a, b) ==
    \/ a.block_number < b.block_number
    \/ /\ a.block_number = b.block_number
       /\ \/ HashLess(a, b)
          \/ /\ a.block_hash = b.block_hash
             /\ a.ts <= b.ts

RECURSIVE SortedOrders(_)
\* every order the rows can come back in: rows with equal sort keys in any order
SortedOrders(rows) ==
    IF rows = {} THEN {<<>>}
    ELSE UNION {{<<m>> \o t : t \in SortedOrders(rows \ {m})} :
                m \in {r \in rows : \A q \in rows : OrderByLE(r, q)}}

\* the rows of mcy_get_channel_events without "and block_is_valid"
channel_event_rows_any_validity(db, chan, include_intent) ==
    {ce \in SeqToSet(db.channel_events) : ChanKey(ce) = ChanKey(chan)}
    \cup
    {ci \in SeqToSet(db.channel_intents) :
        include_intent /\ ChanKey(ci) = ChanKey(chan) /\ ci.block_hash = NULL}

\* the rows of mcy_get_channel_events without "include_intent and"
channel_event_rows_with_intents(db, chan, include_intent) ==
    {ce \in SeqToSet(db.channel_events) :
        ChanKey(ce) = ChanKey(chan) /\ ce.block_is_valid = Some(TRUE)}
    \cup
    {ci \in SeqToSet(db.channel_intents) :
        ChanKey(ci) = ChanKey(chan) /\ ci.block_hash = NULL}

\* the rows mcy_get_channel_events selects
ChannelEventRows(db, chan, include_intent) ==
    {ce \in SeqToSet(db.channel_events) :
        ChanKey(ce) = ChanKey(chan) /\ ce.block_is_valid = Some(TRUE)}
    \cup
    {ci \in SeqToSet(db.channel_intents) :
        include_intent /\ ChanKey(ci) = ChanKey(chan) /\ ci.block_hash = NULL}

\* the set of sequences the query can return
mcy_get_channel_events(db, chan, include_intent) ==
    SortedOrders(ChannelEventRows(db, chan, include_intent))

---------------------------------------------------------------------------
(* The channel reducer. *)

\* a null mcy_channel: every column null
NullChannel ==
    [chain_id |-> NULL, contract_id |-> NULL, channel_id |-> NULL,
     last_state_id |-> NULL, last_event_id |-> NULL,
     sender |-> NULL, receiver |-> NULL, value |-> NULL,
     settlement_period |-> NULL, until |-> NULL,
     payment |-> NULL, odd_value |-> NULL,
     state |-> NULL, state_is_intent |-> NULL,
     opened_on |-> NULL, settlement_started_on |-> NULL,
     settlement_finalized_on |-> NULL]

\* a + b that leaves a as it is
null_add_left_only(a, b) == a

\* a nullable + b nullable
NullAdd(a, b) == IF a = NULL \/ b = NULL THEN NULL ELSE Some(Val(a) + Val(b))

\* the subtraction with its operands exchanged
null_sub_exchanged(a, b) == IF a = NULL \/ b = NULL THEN NULL ELSE Some(Val(b) - Val(a))

\* a nullable - b nullable
NullSub(a, b) == IF a = NULL \/ b = NULL THEN NULL ELSE Some(Val(a) - Val(b))

\* mcy_assert_channel_state accepting every state
assert_channel_state_any(event_type, channel, a, b) == NULL

\* mcy_assert_channel_state with the actual and the expected state exchanged
assert_channel_state_swapped(event_type, channel, a, b) ==
    LET chan_state == Coalesce(channel.state, "NULL")
        a_ == Coalesce(a, "NULL")
    IN  IF chan_state = a_ \/ (b # NULL /\ chan_state = Val(b)) THEN NULL
        ELSE Some("invalid channel state for event " \o event_type
                  \o ": got " \o (IF b = NULL THEN a_ ELSE a_ \o " or " \o Val(b))
                  \o " but should be " \o chan_state)

\* NULL when the state is a or b, the reason otherwise; a, b nullable texts
mcy_assert_channel_state(event_type, channel, a, b) ==
    LET chan_state == Coalesce(channel.state, "NULL")
        a_ == Coalesce(a, "NULL")
    IN  IF chan_state = a_ \/ (b # NULL /\ chan_state = Val(b)) THEN NULL
        ELSE Some("invalid channel state for event " \o event_type
                  \o ": got " \o chan_state \o " but should be "
                  \o (IF b = NULL THEN a_ ELSE a_ \o " or " \o Val(b)))

\* state_is_intent that forgets the earlier events
state_is_intent_of_event_only(channel, event) == Some(event.block_hash = NULL)

\* channel.state_is_intent after event
next_state_is_intent(channel, event) ==
    Some(Coalesce(channel.state_is_intent, FALSE) \/ event.block_hash = NULL)

\* [exc, new_channel, is_invalid, is_invalid_reason]
mcy_channel_apply_event(channel_in, event) ==
    LET event_type == event.event_type
        fields == event.fields
        channel ==
            IF channel_in = NullChannel
            THEN [channel_in EXCEPT !.chain_id = Some(event.chain_id),
                                    !.contract_id = Some(event.contract_id),
                                    !.channel_id = Some(event.channel_id),
                                    !.last_event_id = Some(event.id)]
            ELSE channel_in
        state_is_intent == next_state_is_intent(channel, event)
        Result(exc, reason, c) ==
            [exc |-> exc,
             new_channel |-> [c EXCEPT !.state_is_intent = state_is_intent],
             is_invalid |-> reason # NULL,
             is_invalid_reason |-> reason]
    IN
    CASE event_type = "DidCreateChannel" ->
            LET reason == mcy_assert_channel_state(event_type, channel, NULL, NULL)
                sender == mcy_not_null(fields, "sender")
                receiver == mcy_not_null(fields, "receiver")
                settlement_period == mcy_not_null(fields, "settlement_period")
                until == mcy_not_null(fields, "until")
                value == mcy_wei_from_js(fields, "value")
            IN  Result(
                    FirstExc(<<sender, receiver, settlement_period, until, value>>),
                    reason,
                    [channel EXCEPT
                        !.state = Some("CS_OPEN"),
                        !.opened_on = Some(event.ts),
                        !.sender = sender.val,
                        !.receiver = receiver.val,
                        !.settlement_period = CastNumeric(settlement_period.val),
                        !.until = CastNumeric(until.val),
                        !.value = value.val])
      [] event_type = "DidDeposit" ->
            LET reason == mcy_assert_channel_state(
                              event_type, channel, Some("CS_OPEN"), NULL)
                value == mcy_wei_from_js(fields, "value")
            IN  Result(
                    FirstExc(<<value>>),
                    reason,
                    [channel EXCEPT !.value = NullAdd(channel.value, value.val)])
      [] event_type = "DidStartSettle" ->
            LET reason == mcy_assert_channel_state(
                              event_type, channel, Some("CS_OPEN"), NULL)
                payment == mcy_not_null(fields, "payment")
            IN  Result(
                    FirstExc(<<payment>>),
                    reason,
                    [channel EXCEPT
                        !.state = Some("CS_SETTLING"),
                        !.settlement_started_on = Some(event.ts),
                        !.until = NullAdd(Some(event.ts), channel.settlement_period),
                        !.payment = CastNumeric(payment.val)])
      [] event_type = "DidSettle" ->
            LET reason == mcy_assert_channel_state(
                              event_type, channel, Some("CS_OPEN"), Some("CS_SETTLING"))
                payment == mcy_not_null(fields, "payment")
                odd_value == mcy_not_null(fields, "odd_value")
            IN  Result(
                    FirstExc(<<payment, odd_value>>),
                    reason,
                    [channel EXCEPT
                        !.state = Some("CS_SETTLED"),
                        !.settlement_finalized_on = Some(event.ts),
                        !.payment = CastNumeric(payment.val),
                        !.odd_value = CastNumeric(odd_value.val)])
      [] OTHER ->
            Result(NULL, Some("invalid event type: " \o event_type), channel)

\* a null mcy_get_channel_result
NullChannelResult ==
    [exc |-> NULL, channel |-> NullChannel,
     latest_intent_event |-> NULL, latest_chain_event |-> NULL,
     latest_event |-> NULL, is_invalid |-> NULL, is_invalid_reason |-> NULL]

RECURSIVE channel_fold_keep_mutations(_, _)
\* the loop of mcy_get_channel assigning res.channel before it tests is_invalid
channel_fold_keep_mutations(res, events) ==
    IF events = <<>> THEN res
    ELSE
        LET event == Head(events)
            seen == [res EXCEPT
                        !.latest_event = Some(event),
                        !.latest_intent_event =
                            IF event.block_hash = NULL THEN Some(event) ELSE @,
                        !.latest_chain_event =
                            IF event.block_hash = NULL THEN @ ELSE Some(event)]
            apply_res == mcy_channel_apply_event(res.channel, event)
            checked == [seen EXCEPT
                           !.channel = apply_res.new_channel,
                           !.is_invalid = Some(apply_res.is_invalid),
                           !.is_invalid_reason = apply_res.is_invalid_reason]
        IN  IF apply_res.exc # NULL THEN [res EXCEPT !.exc = apply_res.exc]
            ELSE IF apply_res.is_invalid THEN checked
            ELSE channel_fold_keep_mutations(checked, Tail(events))

RECURSIVE channel_fold_latest_after_apply(_, _)
\* the loop of mcy_get_channel recording an event only once it is accepted
channel_fold_latest_after_apply(res, events) ==
    IF events = <<>> THEN res
    ELSE
        LET event == Head(events)
            seen == [res EXCEPT
                        !.latest_event = Some(event),
                        !.latest_intent_event =
                            IF event.block_hash = NULL THEN Some(event) ELSE @,
                        !.latest_chain_event =
                            IF event.block_hash = NULL THEN @ ELSE Some(event)]
            apply_res == mcy_channel_apply_event(res.channel, event)
        IN  IF apply_res.exc # NULL THEN [res EXCEPT !.exc = apply_res.exc]
            ELSE IF apply_res.is_invalid
            THEN [res EXCEPT
                     !.is_invalid = Some(apply_res.is_invalid),
                     !.is_invalid_reason = apply_res.is_invalid_reason]
            ELSE channel_fold_latest_after_apply(
                     [seen EXCEPT
                         !.is_invalid = Some(apply_res.is_invalid),
                         !.is_invalid_reason = apply_res.is_invalid_reason,
                         !.channel = apply_res.new_channel],
                     Tail(events))

RECURSIVE channel_fold(_, _)
\* the loop of mcy_get_channel over the events that are left
channel_fold(res, events) ==
    IF events = <<>> THEN res
    ELSE
        LET event == Head(events)
            seen == [res EXCEPT
                        !.latest_event = Some(event),
                        !.latest_intent_event =
                            IF event.block_hash = NULL THEN Some(event) ELSE @,
                        !.latest_chain_event =
                            IF event.block_hash = NULL THEN @ ELSE Some(event)]
            apply_res == mcy_channel_apply_event(res.channel, event)
            checked == [seen EXCEPT
                           !.is_invalid = Some(apply_res.is_invalid),
                           !.is_invalid_reason = apply_res.is_invalid_reason]
        IN  IF apply_res.exc # NULL THEN [res EXCEPT !.exc = apply_res.exc]
            ELSE IF apply_res.is_invalid THEN checked
            ELSE channel_fold(
                     [checked EXCEPT !.channel = apply_res.new_channel], Tail(events))

\* the set of results mcy_get_channel can return
mcy_get_channel(db, chan, include_intent) ==
    {channel_fold(NullChannelResult, events) :
        events \in mcy_get_channel_events(db, chan, include_intent)}

---------------------------------------------------------------------------
(* The channel status query. *)

\* MissingKeys with channel_id checked first
missing_keys_channel_first(chan) ==
    SelectSeq(<<"channel_id", "contract_id", "chain_id">>,
              LAMBDA f : f \notin DOMAIN chan)

\* the missing key fields of a JSON object, in the order they are checked
MissingKeys(chan) ==
    SelectSeq(<<"chain_id", "contract_id", "channel_id">>,
              LAMBDA f : f \notin DOMAIN chan)

\* mcy_get_latest_state_update with "order by id desc"
latest_state_update_by_id(db, chan) ==
    IF MissingKeys(chan) # <<>>
    THEN [exc |-> Some(Head(MissingKeys(chan)) \o " must not be null"),
          val |-> NULL]
    ELSE
        LET rows == {su \in SeqToSet(db.state_updates) : ChanKey(su) = ChanKey(chan)}
        IN  [exc |-> NULL,
             val |-> IF rows = {} THEN NULL
                     ELSE Some(CHOOSE su \in rows : \A q \in rows : q.id <= su.id)]

\* [exc, val]: val the channel's state_updates row with the highest amount
mcy_get_latest_state_update(db, chan) ==
    IF MissingKeys(chan) # <<>>
    THEN [exc |-> Some(Head(MissingKeys(chan)) \o " must not be null"),
          val |-> NULL]
    ELSE
        LET rows == {su \in SeqToSet(db.state_updates) : ChanKey(su) = ChanKey(chan)}
        IN  [exc |-> NULL,
             val |-> IF rows = {} THEN NULL
                     ELSE Some(CHOOSE su \in rows :
                                  \A q \in rows : q.amount <= su.amount)]

\* su a nullable state_updates row
mcy_state_update_row_to_json(su) ==
    IF su = NULL THEN NULL
    ELSE Some([Val(su) EXCEPT !.amount = NumericToText(@)])

\* c an mcy_channel
mcy_channel_row_to_json(c) ==
    IF c = NullChannel THEN NULL
    ELSE Some([c EXCEPT !.value = mcy_wei_to_js(@),
                        !.payment = mcy_wei_to_js(@),
                        !.odd_value = mcy_wei_to_js(@)])

\* the amount column of a nullable state_updates row
AmountOf(su) == IF su = NULL THEN NULL ELSE Some(Val(su).amount)

\* [exc, val]: what mcy_get_channel_status returns when mcy_get_channel gave cr
\* (mcy_channel_event_to_json is row_to_json: the event keeps its columns)
channel_status(db, chan, cr) ==
    LET latest_state == mcy_get_latest_state_update(db, chan) IN
    IF cr.exc # NULL THEN [exc |-> cr.exc, val |-> NULL]
    ELSE IF latest_state.exc # NULL THEN [exc |-> latest_state.exc, val |-> NULL]
    ELSE
        [exc |-> NULL,
         val |->
            [channel |-> mcy_channel_row_to_json(cr.channel),
             latest_state |-> mcy_state_update_row_to_json(latest_state.val),
             current_payment |-> mcy_wei_to_js(AmountOf(latest_state.val)),
             current_remaining_balance |->
                 mcy_wei_to_js(NullSub(cr.channel.value, AmountOf(latest_state.val))),
             latest_event |-> cr.latest_event,
             latest_intent_event |-> cr.latest_intent_event,
             latest_chain_event |-> cr.latest_chain_event,
             is_invalid |-> cr.is_invalid,
             is_invalid_reason |-> cr.is_invalid_reason]]

\* the set of [exc, val] the query can return
mcy_get_channel_status(db, chan, include_intent) ==
    {channel_status(db, chan, cr) : cr \in mcy_get_channel(db, chan, include_intent)}

---------------------------------------------------------------------------
(* Writes to the event logs.  Each operator gives the set of outcomes      *)
(* [db, ret] of one call; ret is [exc, val].                               *)

\* the outcomes of a statement that changed db to db1 and returns one of rets
Outcomes(db, db1, rets) ==
    {IF r.exc # NULL THEN [db |-> db, ret |-> r] ELSE [db |-> db1, ret |-> r] :
        r \in rets}

mcy_insert_channel_event(db, event) ==
    LET row == EventRow(Len(db.channel_events) + 1, event)
        db1 == [db EXCEPT
                   !.channel_events = Append(@, row),
                   !.channel_intents = trigger_on_insert(@, row)]
    IN  Outcomes(db, db1, mcy_get_channel_status(db1, event, TRUE))

\* now() differs from one transaction to the next: the clock ticks per insert
mcy_insert_channel_intent(db, intent) ==
    LET new_intent == IntentRow(Len(db.channel_intents) + 1, intent, db.now)
        correlated == [new_intent EXCEPT
                          !.block_hash =
                              mcy_get_intent_block_hash(db.channel_events, new_intent)]
        db1 == [db EXCEPT
                   !.channel_intents = Append(@, correlated),
                   !.now = @ + 1]
    IN  Outcomes(db, db1, mcy_get_channel_status(db1, intent, TRUE))

\* block_hashes[block_number - first_block_num + 1], NULL outside the array
ArrayGet(block_hashes, i) ==
    IF i \in 1..Len(block_hashes) THEN Some(block_hashes[i]) ELSE NULL

\* new_is_valid reading the array from index 0
new_is_valid_from_zero(e, first_block_num, block_hashes) ==
    Val(e.block_hash) =
        Coalesce(ArrayGet(block_hashes, e.block_number - first_block_num),
                 "<invalid>")

\* new_is_valid of the events_with_is_valid subquery
new_is_valid(e, first_block_num, block_hashes) ==
    Val(e.block_hash) =
        Coalesce(ArrayGet(block_hashes, e.block_number - first_block_num + 1),
                 "<invalid>")

RECURSIVE StatusLists(_, _)
\* the lists of statuses of the channels chans, one status per channel
StatusLists(db, chans) ==
    IF chans = <<>> THEN {<<>>}
    ELSE {<<s>> \o t : s \in mcy_get_channel_status(db, Head(chans), TRUE),
                       t \in StatusLists(db, Tail(chans))}

\* updated_events without "block_number >= first_block_num"
updated_events_any_block(events, chain_id_, first_block_num, block_hashes) ==
    {i \in 1..Len(events) :
        /\ events[i].chain_id = chain_id_
        /\ events[i].block_hash # NULL
        /\ Val(events[i].block_is_valid)
               # new_is_valid(events[i], first_block_num, block_hashes)}

\* updated_events without "e.block_is_valid <> u.new_is_valid"
updated_events_unfiltered(events, chain_id_, first_block_num, block_hashes) ==
    {i \in 1..Len(events) :
        /\ events[i].chain_id = chain_id_
        /\ events[i].block_hash # NULL
        /\ events[i].block_number >= first_block_num}

\* the ids of the rows the update statement of mcy_set_recent_blocks changes
updated_events(events, chain_id_, first_block_num, block_hashes) ==
    {i \in 1..Len(events) :
        /\ events[i].chain_id = chain_id_
        /\ events[i].block_hash # NULL
        /\ events[i].block_number >= first_block_num
        /\ Val(events[i].block_is_valid)
               # new_is_valid(events[i], first_block_num, block_hashes)}

\* update_block_is_valid moving a replaced row to the block that replaced it
update_block_is_valid_rewriting_hash(events, chain_id_, first_block_num, block_hashes) ==
    LET updated == updated_events(events, chain_id_, first_block_num, block_hashes)
        new_hash(e) == ArrayGet(block_hashes, e.block_number - first_block_num + 1)
    IN  [i \in 1..Len(events) |->
            IF i \in updated
            THEN IF new_hash(events[i]) # NULL
                 THEN [events[i] EXCEPT !.block_hash = new_hash(events[i]),
                                        !.block_is_valid = Some(TRUE)]
                 ELSE [events[i] EXCEPT !.block_is_valid = Some(FALSE)]
            ELSE events[i]]

\* channel_events after the update statement of mcy_set_recent_blocks
update_block_is_valid(events, chain_id_, first_block_num, block_hashes) ==
    LET updated == updated_events(events, chain_id_, first_block_num, block_hashes)
    IN  [i \in 1..Len(events) |->
            IF i \in updated
            THEN [events[i] EXCEPT
                     !.block_is_valid =
                         Some(new_is_valid(events[i], first_block_num, block_hashes))]
            ELSE events[i]]

mcy_set_recent_blocks(db, chain_id_, first_block_num, block_hashes) ==
    LET events == db.channel_events
        updated == updated_events(events, chain_id_, first_block_num, block_hashes)
        events1 ==
            update_block_is_valid(events, chain_id_, first_block_num, block_hashes)
        olds == SelectSeq(events, LAMBDA e : e.id \in updated)
        db1 == [db EXCEPT
                   !.channel_events = events1,
                   !.channel_intents = fire_update_triggers(events1, @, olds)]
        \* the loop meets the updated rows in an order SQL leaves open
        chan_orders == SetToSeqs({ChanKey(events[i]) : i \in updated})
        rets ==
            {IF \E i \in 1..Len(sts) : sts[i].exc # NULL
             THEN [exc |-> sts[CHOOSE i \in 1..Len(sts) : sts[i].exc # NULL].exc,
                   val |-> NULL]
             ELSE [exc |-> NULL,
                   val |-> [updated_event_count |-> Cardinality(updated),
                            updated_channels |->
                                [i \in 1..Len(sts) |-> sts[i].val]]]
             : sts \in UNION {StatusLists(db1, chans) : chans \in chan_orders}}
    IN  Outcomes(db, db1, rets)

---------------------------------------------------------------------------
(* The calls of src/pg-machinomy.js on the event logs, as actions. *)

\* the call's outcome o becomes the state
Commit(o, op, arg) ==
    /\ state_updates' = o.db.state_updates
    /\ invalid_state_updates' = o.db.invalid_state_updates
    /\ channel_events' = o.db.channel_events
    /\ channel_intents' = o.db.channel_intents
    /\ now' = o.db.now
    /\ ret' = [op |-> op, arg |-> arg, exc |-> o.ret.exc, val |-> o.ret.val]

RowCount == Len(channel_events) + Len(channel_intents)

insertChannelEvent(event) ==
    /\ RowCount < MaxRows
    /\ \E o \in mcy_insert_channel_event(DB, event) :
          Commit(o, "insertChannelEvent", event)
    /\ UNCHANGED session

insertChannelIntent(intent) ==
    /\ RowCount < MaxRows
    /\ \E o \in mcy_insert_channel_intent(DB, intent) :
          Commit(o, "insertChannelIntent", intent)
    /\ UNCHANGED session

\* ret keeps the result, not the arguments
setRecentBlocks(chainId, firstBlockNum, blockHashes) ==
    /\ \E o \in mcy_set_recent_blocks(DB, chainId, firstBlockNum, blockHashes) :
          Commit(o, "setRecentBlocks", NULL)
    /\ UNCHANGED session

Init ==
    /\ state_updates = <<>>
    /\ invalid_state_updates = <<>>
    /\ channel_events = <<>>
    /\ channel_intents = <<>>
    /\ now = 1
    /\ ret = [op |-> "none", arg |-> NULL, exc |-> NULL, val |-> NULL]
    /\ session = <<>>

---------------------------------------------------------------------------
(* The inputs. *)

\* the channels: one on chain 1 and a second one on chain 2
Chan1 == [chain_id |-> 1, contract_id |-> "c", channel_id |-> "a"]

Chan2 == [chain_id |-> 2, contract_id |-> "c", channel_id |-> "a"]

Channels == {Chan1, Chan2}

\* the timestamp the tests give every chain event
EventTs == 1234

CreateFields ==
    [sender |-> JStr("s1"), receiver |-> JStr("r1"),
     settlement_period |-> JNum(17), until |-> JNum(7890), value |-> JStr("0")]

\* <<sender, event_type, fields>>
Create1 == <<"s1", "DidCreateChannel", CreateFields>>

Create2 == <<"s2", "DidCreateChannel", CreateFields>>

Deposit1 == <<"s1", "DidDeposit", [value |-> JStr("1")]>>

StartSettle1 == <<"s1", "DidStartSettle", [payment |-> JStr("1")]>>

Settle1 == <<"s1", "DidSettle", [payment |-> JStr("1"), odd_value |-> JStr("0")]>>

MkEvent(chan, block, payload) ==
    [chain_id |-> chan.chain_id, contract_id |-> chan.contract_id,
     channel_id |-> chan.channel_id, ts |-> EventTs,
     block_number |-> block[1], block_hash |-> block[2],
     sender |-> payload[1], event_type |-> payload[2], fields |-> payload[3]]

MkIntent(chan, block_number, payload) ==
    [chain_id |-> chan.chain_id, contract_id |-> chan.contract_id,
     channel_id |-> chan.channel_id, block_number |-> block_number,
     sender |-> payload[1], event_type |-> payload[2], fields |-> payload[3]]

---------------------------------------------------------------------------
(* Spec: intent correlation and reorgs.  Block 2 has two competing hashes; *)
(* the events and intents differ in channel, sender, type and block.       *)

\* <<block_number, block_hash>>
Blocks == {<<1, "a">>, <<2, "a">>, <<2, "b">>}

EventInputs ==
    {MkEvent(Chan1, b, p) : b \in Blocks, p \in {Create1, Create2, Deposit1}}
    \cup {MkEvent(Chan2, <<2, "a">>, Create1)}

IntentInputs ==
    {MkIntent(Chan1, n, p) : n \in {1, 2}, p \in {Create1, Deposit1}}
    \cup {MkIntent(Chan2, 1, Create1)}

\* <<chain_id, first_block_num, block_hashes>>
ReorgInputs ==
    {<<1, 1, hs>> : hs \in {<<"a">>, <<"b">>, <<"a", "a">>, <<"a", "b">>}}
    \cup {<<1, 2, hs>> : hs \in {<<>>, <<"a">>, <<"b">>}}
    \cup {<<2, 2, hs>> : hs \in {<<>>, <<"a">>}}

InsertEvent == \E event \in EventInputs : insertChannelEvent(event)

InsertIntent == \E intent \in IntentInputs : insertChannelIntent(intent)

Reorg == \E r \in ReorgInputs : setRecentBlocks(r[1], r[2], r[3])

Next == InsertEvent \/ InsertIntent \/ Reorg

Spec == Init /\ [][Next]_vars

---------------------------------------------------------------------------
(* SpecFold: the reducer over one channel with every event type. *)

FoldEventInputs ==
    {MkEvent(Chan1, b, p) :
        b \in {<<1, "a">>, <<2, "a">>},
        p \in {Create1, Create2, Deposit1, StartSettle1, Settle1}}

FoldIntentInputs ==
    {MkIntent(Chan1, n, p) :
        n \in {1, 2}, p \in {Create1, Deposit1, StartSettle1, Settle1}}

FoldReorgInputs ==
    {<<1, 1, hs>> : hs \in {<<>>, <<"a">>, <<"a", "a">>}}
    \cup {<<1, 2, hs>> : hs \in {<<>>, <<"a">>}}

FoldInsertEvent == \E event \in FoldEventInputs : insertChannelEvent(event)

FoldInsertIntent == \E intent \in FoldIntentInputs : insertChannelIntent(intent)

FoldReorg == \E r \in FoldReorgInputs : setRecentBlocks(r[1], r[2], r[3])

NextFold == FoldInsertEvent \/ FoldInsertIntent \/ FoldReorg

SpecFold == Init /\ [][NextFold]_vars

---------------------------------------------------------------------------
(* Properties of Spec: correlation of intents with chain events. *)

\* the valid chain events an intent I corresponds to
ValidMatches(I) ==
    {E \in SeqToSet(channel_events) :
        /\ E.block_is_valid = Some(TRUE)
        /\ E.chain_id = I.chain_id
        /\ E.contract_id = I.contract_id
        /\ E.channel_id = I.channel_id
        /\ E.sender = I.sender
        /\ E.event_type = I.event_type
        /\ E.fields = I.fields
        /\ E.block_number >= I.block_number}

\* every chain event an intent I corresponds to, valid or orphaned
AllMatches(I) ==
    {E \in SeqToSet(channel_events) :
        /\ ChanKey(E) = ChanKey(I)
        /\ E.sender = I.sender
        /\ E.event_type = I.event_type
        /\ E.fields = I.fields
        /\ E.block_number >= I.block_number}

\* C1: after every insert_channel_event, insert_channel_intent and
\* set_recent_blocks, each intent carries the block_hash of the valid
\* matching chain event with the highest id, and NULL when there is none.
IntentCorrelation ==
    \A i \in 1..Len(channel_intents) :
        LET I == channel_intents[i]
            M == ValidMatches(I)
        IN  IF M = {}
            THEN I.block_hash = NULL
            ELSE \E E \in M : /\ \A F \in M : F.id <= E.id
                              /\ I.block_hash = E.block_hash

\* C1 witness: a reorg orphaned the latest match of an intent, which now
\* carries the different hash of an earlier, still valid match
IntentCorrelationWitness ==
    /\ ret.op = "setRecentBlocks"
    /\ \E i \in 1..Len(channel_intents) :
          LET I == channel_intents[i] IN
          \E E \in ValidMatches(I), F \in AllMatches(I) :
              /\ F.block_is_valid = Some(FALSE)
              /\ E.id < F.id
              /\ E.block_hash # F.block_hash
              /\ I.block_hash = E.block_hash

\* the state set_recent_blocks(chain_id_, first, H) must leave behind
RecentBlocksPost(chain_id_, first, H) ==
    \A i \in 1..Len(channel_events) :
        LET e == channel_events[i]
            k == e.block_number - first + 1
        IN  (e.chain_id = chain_id_ /\ e.block_number >= first) =>
                e.block_is_valid =
                    Some(k \in 1..Len(H) /\ Some(H[k]) = e.block_hash)

\* C2: immediately after set_recent_blocks(chain_id, first, H) every event
\* of the chain at block_number >= first is valid exactly when its hash is
\* H[block_number - first], so rows past the end of H are invalid and rows
\* invalidated earlier are restored.
\* (Each step either ends in such a state or is not a returning step of
\* setRecentBlocks(chain_id, first, H).)
RecentBlocksSetValidity ==
    [][\A r \in ReorgInputs :
          \/ RecentBlocksPost(r[1], r[2], r[3])'
          \/ ~ (/\ ret'.op = "setRecentBlocks"
                /\ ret'.exc = NULL
                /\ channel_events' =
                       update_block_is_valid(channel_events, r[1], r[2], r[3])
                /\ setRecentBlocks(r[1], r[2], r[3]))]_vars

\* C2 witness: a call changed rows and left every event valid, so it
\* restored rows that an earlier call had invalidated
RecentBlocksWitness ==
    /\ ret.op = "setRecentBlocks"
    /\ ret.exc = NULL
    /\ ret.val.updated_event_count >= 1
    /\ \A i \in 1..Len(channel_events) :
          channel_events[i].block_is_valid = Some(TRUE)

\* C10: get_channel_events(chan, true) contains an intent exactly when none
\* of its matching chain events is valid; with exactly one valid match the
\* pair is the single row of the chain event, with its block_hash.
IntentVisibleIffUnmatched ==
    \A chan \in Channels :
        \A rows \in mcy_get_channel_events(DB, chan, TRUE) :
            \A i \in 1..Len(channel_intents) :
                LET I == channel_intents[i]
                    M == ValidMatches(I)
                    shown == {k \in 1..Len(rows) :
                                 rows[k].block_is_valid = NULL /\ rows[k].id = I.id}
                    pair == {k \in 1..Len(rows) :
                                 \/ k \in shown
                                 \/ /\ rows[k].block_is_valid # NULL
                                    /\ rows[k] \in M}
                IN  ChanKey(I) = chan =>
                        /\ (shown # {}) <=> (M = {})
                        /\ Cardinality(M) = 1 =>
                              /\ Cardinality(pair) = 1
                              /\ \A k \in pair : \A E \in M :
                                    rows[k].block_hash = E.block_hash

\* C10 witness: a reorg orphaned the only match of an intent, which is
\* listed again
IntentVisibleWitness ==
    /\ ret.op = "setRecentBlocks"
    /\ \E i \in 1..Len(channel_intents) :
          LET I == channel_intents[i] IN
          /\ AllMatches(I) # {}
          /\ ValidMatches(I) = {}
          /\ \E rows \in mcy_get_channel_events(DB, ChanKey(I), TRUE) :
                \E k \in 1..Len(rows) : rows[k] = I

---------------------------------------------------------------------------
(* Properties of SpecFold: the channel reducer. *)

\* the two ways get_channel_status is called
IncludeIntent == {TRUE, FALSE}

\* the lifecycle: the state each event type may be met in, and the state after
LifecycleBefore(event_type) ==
    CASE event_type = "DidCreateChannel" -> {"NULL"}
      [] event_type = "DidDeposit" -> {"CS_OPEN"}
      [] event_type = "DidStartSettle" -> {"CS_OPEN"}
      [] event_type = "DidSettle" -> {"CS_OPEN", "CS_SETTLING"}
      [] OTHER -> {}

LifecycleAfter(event_type) ==
    CASE event_type = "DidCreateChannel" -> "CS_OPEN"
      [] event_type = "DidDeposit" -> "CS_OPEN"
      [] event_type = "DidStartSettle" -> "CS_SETTLING"
      [] OTHER -> "CS_SETTLED"

StateRank(state) ==
    CASE state = "NULL" -> 0
      [] state = "CS_OPEN" -> 1
      [] state = "CS_SETTLING" -> 2
      [] OTHER -> 3

\* the state of the channel the fold returns for the first k events
StateAfter(events, k) ==
    Coalesce(channel_fold(NullChannelResult, SubSeq(events, 1, k)).channel.state,
             "NULL")

\* C7: when a status has is_invalid not true, every event was applied in a
\* state its type allows (NULL -> CS_OPEN -> CS_SETTLING -> CS_SETTLED,
\* DidDeposit only while CS_OPEN, DidSettle also from CS_OPEN), the state
\* never moved backwards and nothing was applied after CS_SETTLED.
LifecycleFollowed ==
    \A inc \in IncludeIntent :
        \A events \in mcy_get_channel_events(DB, Chan1, inc) :
            LET st == channel_status(DB, Chan1, channel_fold(NullChannelResult, events))
            IN  (st.exc = NULL /\ st.val.is_invalid # Some(TRUE)) =>
                    \A k \in 1..Len(events) :
                        /\ StateAfter(events, k - 1)
                               \in LifecycleBefore(events[k].event_type)
                        /\ StateAfter(events, k) = LifecycleAfter(events[k].event_type)
                        /\ StateRank(StateAfter(events, k - 1))
                               <= StateRank(StateAfter(events, k))
                        /\ StateAfter(events, k - 1) # "CS_SETTLED"

\* C7 witness: a channel was created, its settlement started and finished
LifecycleWitness ==
    /\ ret.op = "insertChannelEvent"
    /\ ret.exc = NULL
    /\ ret.val.is_invalid = Some(FALSE)
    /\ ret.val.channel # NULL
    /\ Val(ret.val.channel).state = Some("CS_SETTLED")
    /\ \E events \in mcy_get_channel_events(DB, Chan1, TRUE) :
          /\ Len(events) = 3
          /\ events[2].event_type = "DidStartSettle"

\* the index of the first event the fold does not accept, 0 when there is none
Offending(events) ==
    LET bad == {k \in 1..Len(events) :
                   channel_fold(NullChannelResult, SubSeq(events, 1, k)).is_invalid
                       = Some(TRUE)}
    IN  IF bad = {} THEN 0 ELSE CHOOSE k \in bad : \A j \in bad : k <= j

\* C8: when the fold meets an event whose precondition is violated, the
\* status has is_invalid = true and the channel as it was after the events
\* before it (null when it is the first event): neither that event nor any
\* later one is reflected in it.
PreViolationChannel ==
    \A inc \in IncludeIntent :
        \A events \in mcy_get_channel_events(DB, Chan1, inc) :
            LET st == channel_status(DB, Chan1, channel_fold(NullChannelResult, events))
                k == Offending(events)
                before == channel_fold(NullChannelResult, SubSeq(events, 1, k - 1))
            IN  k > 0 =>
                    /\ st.exc = NULL
                    /\ st.val.is_invalid = Some(TRUE)
                    /\ before.is_invalid # Some(TRUE)
                    /\ st.val.channel = mcy_channel_row_to_json(before.channel)
                    /\ k = 1 => st.val.channel = NULL
                    /\ st.val.latest_event = Some(events[k])

\* C8 witness: the second of three events is refused after a first one that
\* opened the channel
PreViolationWitness ==
    /\ ret.exc = NULL
    /\ ret.op # "none"
    /\ \E events \in mcy_get_channel_events(DB, Chan1, TRUE) :
          /\ Len(events) = 3
          /\ Offending(events) = 2
          /\ channel_status(DB, Chan1, channel_fold(NullChannelResult, events)).val.channel
                 # NULL

\* the valid DidCreateChannel chain events of Chan1
ValidCreates ==
    {ce \in SeqToSet(channel_events) :
        /\ ChanKey(ce) = Chan1
        /\ ce.block_is_valid = Some(TRUE)
        /\ ce.event_type = "DidCreateChannel"}

TwoCreatesReason ==
    "invalid channel state for event DidCreateChannel: got CS_OPEN but should be NULL"

\* the states an event type expects, as the reason spells them
ExpectedStates(event_type) ==
    CASE event_type = "DidCreateChannel" -> "NULL"
      [] event_type = "DidDeposit" -> "CS_OPEN"
      [] event_type = "DidStartSettle" -> "CS_OPEN"
      [] OTHER -> "CS_OPEN or CS_SETTLING"

\* events starts with a DidCreateChannel that only DidDeposit events follow
\* up to the next DidCreateChannel
OnlyDepositsBetweenCreates(events) ==
    /\ events # <<>>
    /\ events[1].event_type = "DidCreateChannel"
    /\ \E k \in 2..Len(events) :
          /\ events[k].event_type = "DidCreateChannel"
          /\ \A j \in 2..(k - 1) : events[j].event_type = "DidDeposit"

\* C9 as stated: with two valid DidCreateChannel events of a channel every
\* status has is_invalid = true and the reason "... DidCreateChannel: got
\* CS_OPEN but should be NULL".
TwoCreatesAlwaysSameReason ==
    Cardinality(ValidCreates) >= 2 =>
        \A inc \in IncludeIntent :
            \A st \in mcy_get_channel_status(DB, Chan1, inc) :
                /\ st.exc = NULL
                /\ st.val.is_invalid = Some(TRUE)
                /\ st.val.is_invalid_reason = Some(TwoCreatesReason)

\* C9 amended: with two valid DidCreateChannel events of a channel every
\* status has is_invalid = true and a reason naming the type of the
\* offending event, the state of the channel (or NULL) and the expected
\* state(s); the reason is "... DidCreateChannel: got CS_OPEN but should be
\* NULL" when only DidDeposit events come between the first event, a
\* DidCreateChannel, and the next DidCreateChannel.
TwoCreatesInvalid ==
    Cardinality(ValidCreates) >= 2 =>
        \A inc \in IncludeIntent :
            \A events \in mcy_get_channel_events(DB, Chan1, inc) :
                LET cr == channel_fold(NullChannelResult, events)
                    st == channel_status(DB, Chan1, cr)
                IN  /\ st.exc = NULL
                    /\ st.val.is_invalid = Some(TRUE)
                    /\ st.val.is_invalid_reason =
                           Some("invalid channel state for event "
                                \o Val(st.val.latest_event).event_type
                                \o ": got " \o Coalesce(cr.channel.state, "NULL")
                                \o " but should be "
                                \o ExpectedStates(Val(st.val.latest_event).event_type))
                    /\ OnlyDepositsBetweenCreates(events) =>
                           st.val.is_invalid_reason = Some(TwoCreatesReason)

\* C9 witness: two senders created the same channel and the call returned
\* the reason of the second DidCreateChannel
TwoCreatesWitness ==
    /\ ret.op = "insertChannelEvent"
    /\ ret.exc = NULL
    /\ ret.val.is_invalid_reason = Some(TwoCreatesReason)
    /\ \E c1 \in ValidCreates, c2 \in ValidCreates : c1.sender # c2.sender

\* the insert an event or intent row was made by
InputOf(row) ==
    IF row.block_hash = NULL \/ row.block_is_valid = NULL
    THEN [kind |-> "intent", id |-> row.id,
          input |-> [chain_id |-> row.chain_id, contract_id |-> row.contract_id,
                     channel_id |-> row.channel_id,
                     block_number |-> row.block_number, sender |-> row.sender,
                     event_type |-> row.event_type, fields |-> row.fields]]
    ELSE [kind |-> "event", id |-> row.id,
          input |-> [chain_id |-> row.chain_id, contract_id |-> row.contract_id,
                     channel_id |-> row.channel_id, ts |-> row.ts,
                     block_number |-> row.block_number,
                     block_hash |-> Val(row.block_hash), sender |-> row.sender,
                     event_type |-> row.event_type, fields |-> row.fields]]

RECURSIVE Replay(_, _)
\* the databases that inserting the sequence ins into db can give
Replay(db, ins) ==
    IF ins = <<>> THEN {db}
    ELSE UNION {Replay(o.db, Tail(ins)) :
                   o \in IF Head(ins).kind = "event"
                         THEN mcy_insert_channel_event(db, Head(ins).input)
                         ELSE mcy_insert_channel_intent(db, Head(ins).input)}

\* the part of a status the insertion order should not change
StatusView(st) ==
    IF st.exc # NULL THEN st
    ELSE [channel |-> IF st.val.channel = NULL THEN NULL
                      ELSE Some([Val(st.val.channel) EXCEPT !.last_event_id = NULL]),
          is_invalid |-> st.val.is_invalid,
          is_invalid_reason |-> st.val.is_invalid_reason,
          latest_event |->
              IF st.val.latest_event = NULL THEN NULL
              ELSE Some(Val(st.val.latest_event).event_type),
          latest_intent_event |->
              IF st.val.latest_intent_event = NULL THEN NULL
              ELSE Some(Val(st.val.latest_intent_event).event_type),
          latest_chain_event |->
              IF st.val.latest_chain_event = NULL THEN NULL
              ELSE Some(Val(st.val.latest_chain_event).event_type)]

\* the statuses of Chan1 after the inserts ins were made in every order
StatusViews(ins) ==
    {StatusView(st) :
        st \in UNION {mcy_get_channel_status(db, Chan1, TRUE) :
                         db \in UNION {Replay(EmptyDB, order) :
                                          order \in SetToSeqs(ins)}}}

\* C3: the events and intents of a channel give the same status (channel,
\* is_invalid, is_invalid_reason, latest event types) whatever the order they
\* were inserted in, also when events share block_number, block_hash and ts.
InsertionOrderIndependent ==
    LET ins == {InputOf(channel_events[i]) : i \in 1..Len(channel_events)}
               \cup {InputOf([channel_intents[i] EXCEPT !.block_hash = NULL]) :
                        i \in 1..Len(channel_intents)}
    IN  Cardinality(StatusViews(ins)) = 1

---------------------------------------------------------------------------
(* State updates. *)

\* ecdsa_verify of the pguecc extension on the sender, hash and signature
\* of a state update: what it answers is a property of the update
ecdsa_verify(state_update) ==
    IF "verifies" \in DOMAIN state_update THEN state_update.verifies ELSE NULL

\* mcy_state_update_is_signature_valid with coalesce(..., true)
signature_null_is_valid(state_update) ==
    LET amount == mcy_wei_from_js(state_update, "amount") IN
    IF amount.exc # NULL THEN [exc |-> amount.exc, val |-> NULL]
    ELSE [exc |-> NULL, val |-> Coalesce(ecdsa_verify(state_update), TRUE)]

\* [exc, val]
mcy_state_update_is_signature_valid(state_update) ==
    LET amount == mcy_wei_from_js(state_update, "amount") IN
    IF amount.exc # NULL THEN [exc |-> amount.exc, val |-> NULL]
    ELSE [exc |-> NULL, val |-> Coalesce(ecdsa_verify(state_update), FALSE)]

\* mcy_get_state_update_status with added_amount = amount
state_update_status_adds_amount(db, state_update) ==
    LET amount == mcy_wei_from_js(state_update, "amount")
        last_status == mcy_get_latest_state_update(db, state_update)
        last_amount == AmountOf(last_status.val)
        is_latest ==
            IF last_amount = NULL THEN TRUE
            ELSE Val(amount.val) >= Val(last_amount)
        signature_valid == mcy_state_update_is_signature_valid(state_update)
        exc == FirstExc(<<amount, last_status, signature_valid>>)
    IN  IF exc # NULL THEN [exc |-> exc, val |-> NULL]
        ELSE [exc |-> NULL,
              val |->
                [signature_valid |-> signature_valid.val,
                 is_latest |-> is_latest,
                 added_amount |->
                     mcy_wei_to_js(IF is_latest THEN amount.val ELSE NULL),
                 dupe_status |->
                     IF last_amount # NULL /\ Val(last_amount) = Val(amount.val)
                     THEN "dupe" ELSE "distinct"]]

\* mcy_get_state_update_status with "amount > last_status.amount"
state_update_status_strictly_greater(db, state_update) ==
    LET amount == mcy_wei_from_js(state_update, "amount")
        last_status == mcy_get_latest_state_update(db, state_update)
        last_amount == AmountOf(last_status.val)
        is_latest ==
            IF last_amount = NULL THEN TRUE
            ELSE Val(amount.val) > Val(last_amount)
        signature_valid == mcy_state_update_is_signature_valid(state_update)
        exc == FirstExc(<<amount, last_status, signature_valid>>)
    IN  IF exc # NULL THEN [exc |-> exc, val |-> NULL]
        ELSE [exc |-> NULL,
              val |->
                [signature_valid |-> signature_valid.val,
                 is_latest |-> is_latest,
                 added_amount |->
                     mcy_wei_to_js(
                         IF is_latest
                         THEN Some(Val(amount.val) - Coalesce(last_amount, 0))
                         ELSE NULL),
                 dupe_status |->
                     IF last_amount # NULL /\ Val(last_amount) = Val(amount.val)
                     THEN "dupe" ELSE "distinct"]]

\* [exc, val]: val the status object
mcy_get_state_update_status(db, state_update) ==
    LET amount == mcy_wei_from_js(state_update, "amount")
        last_status == mcy_get_latest_state_update(db, state_update)
        last_amount == AmountOf(last_status.val)
        is_latest ==
            IF last_amount = NULL THEN TRUE
            ELSE Val(amount.val) >= Val(last_amount)
        signature_valid == mcy_state_update_is_signature_valid(state_update)
        exc == FirstExc(<<amount, last_status, signature_valid>>)
    IN  IF exc # NULL THEN [exc |-> exc, val |-> NULL]
        ELSE [exc |-> NULL,
              val |->
                [signature_valid |-> signature_valid.val,
                 is_latest |-> is_latest,
                 added_amount |->
                     mcy_wei_to_js(
                         IF is_latest
                         THEN Some(Val(amount.val) - Coalesce(last_amount, 0))
                         ELSE NULL),
                 dupe_status |->
                     IF last_amount # NULL /\ Val(last_amount) = Val(amount.val)
                     THEN "dupe" ELSE "distinct"]]

\* mcy_insert_invalid_state_update without its insert
invalid_state_update_not_kept(db, reason, status, blob) ==
    [db |-> [db EXCEPT !.now = @ + 1],
     ret |-> [exc |-> NULL,
              val |-> [error |-> TRUE, status |-> status, reason |-> reason]]]

\* the outcome of mcy_insert_invalid_state_update
mcy_insert_invalid_state_update(db, reason, status, blob) ==
    [db |-> [db EXCEPT
                !.invalid_state_updates =
                    Append(@, [id |-> Len(@) + 1, inserted_on |-> db.now,
                               reason |-> reason, status |-> status,
                               blob |-> blob]),
                !.now = @ + 1],
     ret |-> [exc |-> NULL,
              val |-> [error |-> TRUE, status |-> status, reason |-> reason]]]

\* the unique index without effect
unique_index_dropped(rows, new_row) == FALSE

\* state_updates_chain_contract_chan_seq_unique_idx refuses new_row
unique_violation(rows, new_row) ==
    \E i \in 1..Len(rows) :
        /\ ChanKey(rows[i]) = ChanKey(new_row)
        /\ rows[i].amount = new_row.amount

\* the latest_state of mcy_insert_state_update: db1 the tables after its
\* insert, new_row the nullable row it inserted
latest_state_after_insert(db1, state_update, status, new_row) ==
    IF status.is_latest /\ new_row # NULL THEN new_row
    ELSE mcy_get_latest_state_update(db1, state_update).val

\* mcy_insert_state_update after it has read status: the set of outcomes
insert_state_update_checked(db, state_update, include_intent, status) ==
    LET amount == Val(mcy_wei_from_js(state_update, "amount").val)
        row == [id |-> Len(db.state_updates) + 1,
                chain_id |-> state_update.chain_id,
                contract_id |-> state_update.contract_id,
                channel_id |-> state_update.channel_id,
                ts |-> state_update.ts,
                amount |-> amount,
                signature |-> state_update.signature]
        new_row == IF status.dupe_status = "distinct" THEN Some(row) ELSE NULL
        db1 == IF new_row = NULL THEN db
               ELSE [db EXCEPT !.state_updates = Append(@, row)]
        latest_state == latest_state_after_insert(db1, state_update, status, new_row)
    IN
    IF ~ status.signature_valid
    THEN {mcy_insert_invalid_state_update(db, "signature_invalid", status, state_update)}
    ELSE IF status.dupe_status = "conflict"
    THEN {mcy_insert_invalid_state_update(db, "conflict", status, state_update)}
    ELSE IF amount < 0
    THEN {mcy_insert_invalid_state_update(db, "negative_amount", status, state_update)}
    ELSE IF new_row # NULL /\ unique_violation(db.state_updates, row)
    THEN {[db |-> db, ret |-> [exc |-> Some("unique_violation"), val |-> NULL]]}
    ELSE
        Outcomes(db, db1,
            {IF cr.exc # NULL THEN [exc |-> cr.exc, val |-> NULL]
             ELSE [exc |-> NULL,
                   val |->
                     [id |-> IF new_row = NULL THEN NULL ELSE Some(row.id),
                      created |-> new_row # NULL,
                      status |-> status,
                      is_latest |-> status.is_latest,
                      latest_state |-> mcy_state_update_row_to_json(latest_state),
                      added_amount |-> status.added_amount,
                      channel_payment |-> mcy_wei_to_js(AmountOf(latest_state)),
                      channel_remaining_balance |->
                          mcy_wei_to_js(
                              NullSub(cr.channel.value, AmountOf(latest_state)))]]
             : cr \in mcy_get_channel(db1, state_update, include_intent)})

\* the set of outcomes of one call run on its own
mcy_insert_state_update(db, state_update, include_intent) ==
    LET status == mcy_get_state_update_status(db, state_update) IN
    IF status.exc # NULL THEN {[db |-> db, ret |-> status]}
    ELSE insert_state_update_checked(db, state_update, include_intent, status.val)

---------------------------------------------------------------------------
(* SpecSU: state updates of one channel, one call at a time. *)

\* rows in state_updates plus invalid_state_updates
MaxUpdates == 3

UpdateCount == Len(state_updates) + Len(invalid_state_updates)

insertStateUpdate(stateUpdate) ==
    /\ session = <<>>
    /\ UpdateCount < MaxUpdates
    /\ \E o \in mcy_insert_state_update(DB, stateUpdate, TRUE) :
          Commit(o, "insertStateUpdate", stateUpdate)
    /\ UNCHANGED session

\* the signature every state update of the tests carries
TestSignature == "sig"

MkStateUpdate(chan, amount, verifies) ==
    [chain_id |-> chan.chain_id, contract_id |-> chan.contract_id,
     channel_id |-> chan.channel_id, ts |-> EventTs,
     amount |-> JStr(amount), signature |-> TestSignature,
     verifies |-> Some(verifies)]

\* the last one is an update ecdsa_verify answers with null
StateUpdateInputs ==
    {MkStateUpdate(Chan1, a, v) : a \in {"-1", "1", "2"}, v \in {TRUE, FALSE}}
    \cup {[MkStateUpdate(Chan1, "2", TRUE) EXCEPT !.verifies = NULL]}

\* state updates whose amount is a JSON null, a JSON number, or left out
BadAmountInputs ==
    LET su == MkStateUpdate(Chan1, "1", TRUE) IN
    {[su EXCEPT !.amount = JNull], [su EXCEPT !.amount = JNum(1)],
     [f \in DOMAIN su \ {"amount"} |-> su[f]]}

SUEventInputs ==
    {MkEvent(Chan1, <<1, "a">>, Create1), MkEvent(Chan1, <<2, "a">>, Deposit1)}

\* a read: the tables stay as they are
getStateUpdateStatus(stateUpdate) ==
    /\ session = <<>>
    /\ Commit([db |-> DB, ret |-> mcy_get_state_update_status(DB, stateUpdate)],
              "getStateUpdateStatus", stateUpdate)
    /\ UNCHANGED session

InsertStateUpdate == \E su \in StateUpdateInputs : insertStateUpdate(su)

SUInsertEvent == \E event \in SUEventInputs : insertChannelEvent(event)

GetStateUpdateStatus == \E su \in StateUpdateInputs : getStateUpdateStatus(su)

\* chan->>'chain_id', chan->>'contract_id', chan->>'channel_id' of a JSON
\* object: a key that is absent or a JSON null has no value
ChannelOfJson(chan) ==
    [f \in {k \in {"chain_id", "contract_id", "channel_id"} :
                JGetText(chan, k) # NULL} |->
        IF f = "chain_id" THEN TextToNumeric(Val(JGetText(chan, f)))
        ELSE Val(JGetText(chan, f))]

\* a read: the tables stay as they are
getLatestState(channel) ==
    /\ session = <<>>
    /\ LET res == mcy_get_latest_state_update(DB, ChannelOfJson(channel)) IN
       Commit([db |-> DB,
               ret |-> [exc |-> res.exc,
                        val |-> IF res.exc # NULL THEN NULL
                                ELSE mcy_state_update_row_to_json(res.val)]],
              "getLatestState", channel)
    /\ UNCHANGED session

\* the key of Chan1 as a JSON object
JsonChan1 ==
    [chain_id |-> JNum(Chan1.chain_id), contract_id |-> JStr(Chan1.contract_id),
     channel_id |-> JStr(Chan1.channel_id)]

\* Chan1, and Chan1 with keys set to a JSON null or left out
LatestStateInputs ==
    {JsonChan1,
     [JsonChan1 EXCEPT !.contract_id = JNull, !.channel_id = JNull],
     [JsonChan1 EXCEPT !.chain_id = JNull, !.channel_id = JNull],
     [JsonChan1 EXCEPT !.channel_id = JNull],
     [f \in {"chain_id", "channel_id"} |-> JsonChan1[f]],
     [f \in {"contract_id"} |-> JsonChan1[f]]}

GetLatestState == \E channel \in LatestStateInputs : getLatestState(channel)

InsertBadAmount == \E su \in BadAmountInputs : insertStateUpdate(su)

GetBadAmountStatus == \E su \in BadAmountInputs : getStateUpdateStatus(su)

NextSU == InsertStateUpdate \/ SUInsertEvent \/ GetStateUpdateStatus

SpecSU == Init /\ [][NextSU]_vars

---------------------------------------------------------------------------
(* SpecArgs: state updates and channel keys with missing or mistyped *)
(* arguments, one call at a time.                                    *)

ArgsUpdateInputs ==
    {MkStateUpdate(Chan1, a, v) : a \in {"1", "2"}, v \in {TRUE, FALSE}}

ArgsInsertStateUpdate == \E su \in ArgsUpdateInputs : insertStateUpdate(su)

NextArgs ==
    \/ ArgsInsertStateUpdate
    \/ InsertBadAmount
    \/ GetBadAmountStatus
    \/ GetLatestState

SpecArgs == Init /\ [][NextArgs]_vars

---------------------------------------------------------------------------
(* SpecConc: calls of mcy_insert_state_update in concurrent sessions.  A  *)
(* session reads the status in one statement and runs the rest of the     *)
(* function, up to its commit, in a later step; until then the other      *)
(* sessions do not see what it writes.                                    *)

\* sessions that call mcy_insert_state_update
MaxSessions == 2

\* session i is between its read of the status and its commit
InFlight(i) == session[i].pc = "checked"

\* a session sends its call and reads the status (line 868)
BeginInsertStateUpdate(stateUpdate) ==
    /\ Len(session) < MaxSessions
    /\ session' = Append(session,
          [pc |-> "checked",
           state_update |-> stateUpdate,
           status |-> mcy_get_state_update_status(DB, stateUpdate),
           base |-> DB,
           overlapped |-> \E j \in 1..Len(session) : InFlight(j),
           result |-> NULL])
    /\ UNCHANGED <<state_updates, invalid_state_updates, channel_events,
                   channel_intents, now, ret>>

\* session i runs the rest of the function and commits
FinishInsertStateUpdate(i) ==
    /\ InFlight(i)
    /\ \E o \in IF session[i].status.exc # NULL
                THEN {[db |-> DB, ret |-> session[i].status]}
                ELSE insert_state_update_checked(
                         DB, session[i].state_update, TRUE, session[i].status.val) :
          /\ Commit(o, "insertStateUpdate", session[i].state_update)
          /\ session' = [session EXCEPT ![i].pc = "done", ![i].result = o.ret]

SeqInsertStateUpdate == \E su \in StateUpdateInputs : insertStateUpdate(su)

Begin == \E su \in StateUpdateInputs : BeginInsertStateUpdate(su)

Finish == \E i \in 1..Len(session) : FinishInsertStateUpdate(i)

NextConc == SeqInsertStateUpdate \/ Begin \/ Finish

SpecConc == Init /\ [][NextConc]_vars

---------------------------------------------------------------------------
(* Properties of SpecSU and SpecConc: admission of state updates. *)

\* insert_state_update has admitted state_update: its row is in state_updates
Admitted(state_update) ==
    /\ state_update.verifies = Some(TRUE)
    /\ \E i \in 1..Len(state_updates) :
          /\ ChanKey(state_updates[i]) = ChanKey(state_update)
          /\ NumericToText(state_updates[i].amount) = Val(state_update.amount.v)
          /\ state_updates[i].ts = state_update.ts
          /\ state_updates[i].signature = state_update.signature

\* C4: calling insert_state_update again with a state update it has already
\* admitted, the channel's maximum amount or not, leaves state_updates as it
\* was and returns a success result with created = false.
ReinsertIsIdempotent ==
    [][\A su \in StateUpdateInputs :
          (/\ Admitted(su)
           /\ ret'.op = "insertStateUpdate"
           /\ JGet(ret'.arg, "amount").type = "string"
           /\ ret'.arg = su
           /\ insertStateUpdate(su))
          => /\ state_updates' = state_updates
             /\ ret'.exc = NULL
             /\ "created" \in DOMAIN ret'.val
             /\ ret'.val.created = FALSE]_vars

\* an admitted state update below the channel's maximum amount
AdmittedBelowMaximum ==
    \E su \in StateUpdateInputs :
        /\ Admitted(su)
        /\ \E i \in 1..Len(state_updates) :
              /\ ChanKey(state_updates[i]) = ChanKey(su)
              /\ NumericToText(state_updates[i].amount) # Val(su.amount.v)
              /\ state_updates[i].amount > TextToNumeric(Val(su.amount.v))

\* every session has committed or failed
AllDone ==
    /\ session # <<>>
    /\ \A i \in 1..Len(session) : session[i].pc = "done"

RECURSIVE ReplayCalls(_, _)
\* the outcomes [db, rets] of the calls state_updates made one after another
ReplayCalls(db, calls) ==
    IF calls = <<>> THEN {[db |-> db, rets |-> <<>>]}
    ELSE UNION {{[db |-> rest.db, rets |-> <<o.ret>> \o rest.rets] :
                    rest \in ReplayCalls(o.db, Tail(calls))} :
                o \in mcy_insert_state_update(db, Head(calls), TRUE)}

\* the orders the sessions' calls can be made in
SessionOrders == SetToSeqs(1..Len(session))

\* the two tables as a call leaves them, without the clock's reading
TablesView(db) ==
    [state_updates |-> db.state_updates,
     invalid_state_updates |->
         [i \in 1..Len(db.invalid_state_updates) |->
             [db.invalid_state_updates[i] EXCEPT !.inserted_on = NULL]]]

\* C5: two concurrent insert_state_update calls on a channel leave
\* state_updates and invalid_state_updates as the same two calls leave them
\* when made one after the other in some order.
ConcurrentInsertsSerializable ==
    (AllDone /\ Len(session) = 2) =>
        \E order \in SessionOrders :
            \E o \in ReplayCalls(session[1].base,
                                 [k \in 1..Len(order) |->
                                     session[order[k]].state_update]) :
                TablesView(o.db) = TablesView(DB)

\* C5 witness: two sessions read the status before either committed, both
\* with the same new amount; the unique index refused the second insert
ConcurrentInsertsWitness ==
    /\ AllDone
    /\ Len(session) = 2
    /\ session[2].overlapped
    /\ session[1].status = session[2].status
    /\ session[1].status.val.signature_valid
    /\ \E i \in 1..2 : session[i].result.exc = Some("unique_violation")
    /\ \E i \in 1..2 : /\ session[i].result.exc = NULL
                       /\ session[i].result.val.created

\* is_latest and added_amount as a call returns them
ReturnView(r) ==
    IF "error" \in DOMAIN r.val
    THEN [is_latest |-> r.val.status.is_latest,
          added_amount |-> r.val.status.added_amount]
    ELSE [is_latest |-> r.val.is_latest, added_amount |-> r.val.added_amount]

\* C6: the is_latest and added_amount that two concurrent
\* insert_state_update calls on a channel return are those the two calls
\* return when made one after the other in some order.
ConcurrentReturnsSerializable ==
    (AllDone /\ Len(session) = 2) =>
        \E order \in SessionOrders :
            \E o \in ReplayCalls(session[1].base,
                                 [k \in 1..Len(order) |->
                                     session[order[k]].state_update]) :
                \A k \in 1..Len(order) :
                    LET got == session[order[k]].result IN
                    got.exc = NULL =>
                        /\ o.rets[k].exc = NULL
                        /\ ReturnView(o.rets[k]) = ReturnView(got)

---------------------------------------------------------------------------
(* Properties of SpecSU: the status of a channel with state updates. *)

\* the statuses get_channel_status can return for Chan1
Chan1Statuses ==
    UNION {mcy_get_channel_status(DB, Chan1, inc) : inc \in IncludeIntent}

\* the status st has a channel with a value
HasValue(st) ==
    /\ st.exc = NULL
    /\ st.val.channel # NULL
    /\ Val(st.val.channel).value # NULL

\* current_remaining_balance + current_payment = channel.value in st
BalanceAddsUp(st) ==
    /\ st.val.current_remaining_balance # NULL
    /\ st.val.current_payment # NULL
    /\ TextToNumeric(Val(st.val.current_remaining_balance))
         + TextToNumeric(Val(st.val.current_payment))
           = TextToNumeric(Val(Val(st.val.channel).value))

\* C11 as stated: in every status whose channel.value is non-null,
\* current_remaining_balance + current_payment = channel.value.
BalanceAlwaysAddsUp ==
    \A st \in Chan1Statuses : HasValue(st) => BalanceAddsUp(st)

\* C11 amended: in every status whose channel.value is non-null and whose
\* channel has a stored state update, current_remaining_balance +
\* current_payment = channel.value; while the channel has no state update
\* both current_payment and current_remaining_balance are null.
BalanceAddsUpWithState ==
    \A st \in Chan1Statuses :
        HasValue(st) =>
            IF st.val.latest_state # NULL
            THEN BalanceAddsUp(st)
            ELSE /\ st.val.current_payment = NULL
                 /\ st.val.current_remaining_balance = NULL

\* C11 witness: a deposit raised the value of a channel that has a state
\* update of a higher amount
BalanceWitness ==
    /\ ret.op = "insertChannelEvent"
    /\ ret.exc = NULL
    /\ ret.val.channel # NULL
    /\ Val(ret.val.channel).value = Some("1")
    /\ ret.val.current_payment = Some("2")
    /\ ret.val.current_remaining_balance = Some("-1")

\* the amounts stored for the channel of state_update
StoredAmounts(state_update) ==
    {state_updates[i].amount : i \in
        {j \in 1..Len(state_updates) :
            ChanKey(state_updates[j]) = ChanKey(state_update)}}

\* the amount of a state update whose amount is text
AmountIn(state_update) == TextToNumeric(Val(state_update.amount.v))

StatusDupeOnAnyMatch ==
    \A su \in StateUpdateInputs :
        LET st == mcy_get_state_update_status(DB, su) IN
        /\ st.exc = NULL
        /\ st.val.dupe_status =
             IF AmountIn(su) \in StoredAmounts(su) THEN "dupe" ELSE "distinct"

\* the status of a stored amount was read and came back as 'dupe'
StatusDupeWitness ==
    /\ ret.op = "getStateUpdateStatus"
    /\ ret.exc = NULL
    /\ ret.val.dupe_status = "dupe"
    /\ AmountIn(ret.arg) \in StoredAmounts(ret.arg)

\* the amount of state_update is a JSON string
AmountIsText(state_update) == JGet(state_update, "amount").type = "string"

\* the call answered with the error record of reason, and stored it
Quarantined(reason) ==
    /\ ret'.exc = NULL
    /\ "error" \in DOMAIN ret'.val
    /\ ret'.val.error = TRUE
    /\ ret'.val.reason = reason
    /\ Len(invalid_state_updates') = Len(invalid_state_updates) + 1
    /\ SubSeq(invalid_state_updates', 1, Len(invalid_state_updates))
         = invalid_state_updates
    /\ invalid_state_updates'[Len(invalid_state_updates')].reason = reason
    /\ invalid_state_updates'[Len(invalid_state_updates')].blob = ret'.arg
    /\ state_updates' = state_updates

\* C14: insert_state_update with a text amount below zero and a signature
\* that verifies returns {error: true, reason: 'negative_amount'}, appends
\* exactly one row to invalid_state_updates and leaves state_updates as it
\* was.
NegativeAmountQuarantined ==
    [][(/\ ret'.op = "insertStateUpdate"
        /\ AmountIsText(ret'.arg)
        /\ AmountIn(ret'.arg) < 0
        /\ ecdsa_verify(ret'.arg) = Some(TRUE))
       => Quarantined("negative_amount")]_vars

\* a negative amount with a good signature was refused after an update of
\* the channel had been stored
NegativeAmountWitness ==
    /\ ret.op = "insertStateUpdate"
    /\ AmountIsText(ret.arg)
    /\ AmountIn(ret.arg) < 0
    /\ ecdsa_verify(ret.arg) = Some(TRUE)
    /\ ret.exc = NULL
    /\ ret.val.reason = "negative_amount"
    /\ state_updates # <<>>
    /\ invalid_state_updates # <<>>

\* C15: when the signature check of u fails (ecdsa_verify answers false or
\* null), insert_state_update returns {error: true, reason:
\* 'signature_invalid'}, appends one row to invalid_state_updates and writes
\* nothing to state_updates, also when the amount is negative.
SignatureInvalidQuarantined ==
    [][(/\ ret'.op = "insertStateUpdate"
        /\ AmountIsText(ret'.arg)
        /\ ecdsa_verify(ret'.arg) \in {NULL, Some(FALSE)})
       => Quarantined("signature_invalid")]_vars

\* an update with a negative amount and a failing signature was refused for
\* its signature
SignatureInvalidWitness ==
    /\ ret.op = "insertStateUpdate"
    /\ AmountIsText(ret.arg)
    /\ AmountIn(ret.arg) < 0
    /\ ecdsa_verify(ret.arg) = Some(FALSE)
    /\ ret.exc = NULL
    /\ ret.val.reason = "signature_invalid"

\* an update ecdsa_verify answers with null was refused for its signature
SignatureNullWitness ==
    /\ ret.op = "insertStateUpdate"
    /\ ecdsa_verify(ret.arg) = NULL
    /\ AmountIsText(ret.arg)
    /\ ret.exc = NULL
    /\ ret.val.reason = "signature_invalid"

\* C17: insert_state_update and get_state_update_status with an amount that
\* is missing, a JSON null or a JSON number fail with the error 'wei values
\* must be text ...' and write no row to state_updates nor to
\* invalid_state_updates.
AmountMustBeText ==
    [][(/\ ret'.op \in {"insertStateUpdate", "getStateUpdateStatus"}
        /\ ~ AmountIsText(ret'.arg))
       => (/\ ret'.exc = Some("wei values must be text")
           /\ ret'.val = NULL
           /\ state_updates' = state_updates
           /\ invalid_state_updates' = invalid_state_updates)]_vars

\* an insert with a JSON number for amount was refused while the channel
\* had a stored update
AmountMustBeTextWitness ==
    /\ ret.op = "insertStateUpdate"
    /\ JGet(ret.arg, "amount").type = "number"
    /\ ret.exc = Some("wei values must be text")
    /\ state_updates # <<>>

\* an insert without the amount field was refused
AmountMissingWitness ==
    /\ ret.op = "insertStateUpdate"
    /\ "amount" \notin DOMAIN ret.arg
    /\ ret.exc = Some("wei values must be text")

\* C16: when insert_state_update classifies u as 'distinct' and the insert
\* into state_updates fails a storage check (here the unique index on chain,
\* contract, channel and amount), the failure is caught: the call returns
\* {error: true, reason: 'invalid_state: ...', status}, appends one row to
\* invalid_state_updates, and no exception reaches the caller.
StorageFailureCaught ==
    [][(/\ ret'.op = "insertStateUpdate"
        /\ AmountIsText(ret'.arg)
        /\ ecdsa_verify(ret'.arg) = Some(TRUE)
        /\ AmountIn(ret'.arg) >= 0
        /\ AmountIn(ret'.arg) \in StoredAmounts(ret'.arg)
        /\ mcy_get_state_update_status(DB, ret'.arg).val.dupe_status = "distinct")
       => (/\ ret'.exc = NULL
           /\ "error" \in DOMAIN ret'.val
           /\ ret'.val.error = TRUE
           /\ ret'.val.reason \notin
                {"signature_invalid", "conflict", "negative_amount"}
           /\ Len(invalid_state_updates') = Len(invalid_state_updates) + 1
           /\ state_updates' = state_updates)]_vars

\* an insert classified 'distinct' was refused by the unique index and the
\* caller got the exception
StorageFailureWitness ==
    /\ ret.op = "insertStateUpdate"
    /\ ret.exc = Some("unique_violation")
    /\ AmountIn(ret.arg) \in StoredAmounts(ret.arg)
    /\ mcy_get_state_update_status(DB, ret.arg).val.dupe_status = "distinct"

---------------------------------------------------------------------------
(* SpecFields: events and intents of one channel, some of them without a *)
(* field their event type reads.                                         *)

CreateNoSender ==
    <<"s1", "DidCreateChannel",
      [f \in DOMAIN CreateFields \ {"sender"} |-> CreateFields[f]]>>

SettleNoOddValue == <<"s1", "DidSettle", [payment |-> JStr("1")]>>

FieldsEventInputs ==
    {MkEvent(Chan1, b, p) :
        b \in {<<1, "a">>, <<2, "a">>},
        p \in {Create1, Deposit1, CreateNoSender, SettleNoOddValue}}

FieldsIntentInputs ==
    {MkIntent(Chan1, n, p) :
        n \in {1, 2}, p \in {Deposit1, CreateNoSender, SettleNoOddValue}}

FieldsInsertEvent == \E event \in FieldsEventInputs : insertChannelEvent(event)

FieldsInsertIntent == \E intent \in FieldsIntentInputs : insertChannelIntent(intent)

NextFields == FieldsInsertEvent \/ FieldsInsertIntent

SpecFields == Init /\ [][NextFields]_vars

\* the fields mcy_channel_apply_event reads with mcy_not_null, in its order
RequiredFields(event_type) ==
    CASE event_type = "DidCreateChannel" ->
            <<"sender", "receiver", "settlement_period", "until">>
      [] event_type = "DidStartSettle" -> <<"payment">>
      [] event_type = "DidSettle" -> <<"payment", "odd_value">>
      [] OTHER -> <<>>

\* the required fields the payload of event lacks
LackingFields(event) ==
    SelectSeq(RequiredFields(event.event_type),
              LAMBDA f : JGetText(event.fields, f) = NULL)

\* C18: an insert_channel_event or insert_channel_intent whose payload lacks
\* a field its event type requires fails with '<field> must not be null' and
\* leaves channel_events and channel_intents without the new row, whatever
\* events the channel already has.
LackingFieldRejected ==
    [][(/\ ret'.op \in {"insertChannelEvent", "insertChannelIntent"}
        /\ LackingFields(ret'.arg) # <<>>)
       => (/\ ret'.exc = Some(Head(LackingFields(ret'.arg)) \o " must not be null")
           /\ channel_events' = channel_events
           /\ channel_intents' = channel_intents)]_vars

\* an event without a required field was refused
LackingFieldWitness ==
    /\ ret.op = "insertChannelEvent"
    /\ LackingFields(ret.arg) # <<>>
    /\ ret.exc = Some(Head(LackingFields(ret.arg)) \o " must not be null")

\* an event without a required field is stored
LackingFieldStored ==
    \E i \in 1..Len(channel_events) : LackingFields(channel_events[i]) # <<>>

\* the first of chain_id, contract_id, channel_id that chan lacks or holds
\* as a JSON null; "" when chan has all three
FirstKeyWithoutValue(chan) ==
    IF JGet(chan, "chain_id").type = "null" THEN "chain_id"
    ELSE IF JGet(chan, "contract_id").type = "null" THEN "contract_id"
    ELSE IF JGet(chan, "channel_id").type = "null" THEN "channel_id"
    ELSE ""

\* C19: get_latest_state called with a channel key whose chain_id,
\* contract_id or channel_id is missing or null raises '<field> must not be
\* null' for the first such field and returns no state update.
LatestStateNeedsKey ==
    (/\ ret.op = "getLatestState"
     /\ FirstKeyWithoutValue(ret.arg) # "")
    => (/\ ret.exc = Some(FirstKeyWithoutValue(ret.arg) \o " must not be null")
        /\ ret.val = NULL)

\* the call of the test: contract_id and channel_id null, with an update of
\* the channel stored
LatestStateWitness ==
    /\ ret.op = "getLatestState"
    /\ JGet(ret.arg, "chain_id").type = "number"
    /\ JGet(ret.arg, "contract_id").type = "null"
    /\ JGet(ret.arg, "channel_id").type = "null"
    /\ ret.exc = Some("contract_id must not be null")
    /\ state_updates # <<>>

\* the latest state of a channel with a stored update was read
LatestStateReadWitness ==
    /\ ret.op = "getLatestState"
    /\ ret.exc = NULL
    /\ ret.val # NULL

---------------------------------------------------------------------------
(* SpecReorg: two channels of one chain under reorganisations. *)

Chan3 == [chain_id |-> 1, contract_id |-> "c", channel_id |-> "b"]

ReorgEventInputs ==
    {MkEvent(Chan1, b, Create1) : b \in {<<1, "a">>, <<2, "a">>, <<2, "b">>}}
    \cup {MkEvent(Chan3, b, Create1) : b \in {<<2, "a">>, <<2, "b">>}}

ReorgIntentInputs == {MkIntent(Chan1, 2, Create1), MkIntent(Chan3, 2, Create1)}

\* <<chain_id, first_block_num, block_hashes>>
RecentBlocksInputs ==
    {<<1, 1, hs>> : hs \in {<<"a">>, <<"a", "a">>, <<"a", "b">>, <<"b", "b">>}}
    \cup {<<1, 2, hs>> : hs \in {<<>>, <<"a">>, <<"b">>}}

ReorgInsertEvent == \E event \in ReorgEventInputs : insertChannelEvent(event)

ReorgInsertIntent == \E intent \in ReorgIntentInputs : insertChannelIntent(intent)

SetRecentBlocks == \E r \in RecentBlocksInputs : setRecentBlocks(r[1], r[2], r[3])

NextReorg == ReorgInsertEvent \/ ReorgInsertIntent \/ SetRecentBlocks

SpecReorg == Init /\ [][NextReorg]_vars

\* the ids of the channel_events rows whose block_is_valid the step changes
ChangedRows ==
    {i \in 1..Len(channel_events) :
        channel_events'[i].block_is_valid # channel_events[i].block_is_valid}

\* the channels with a row the step changes
ChangedChannels == {ChanKey(channel_events[i]) : i \in ChangedRows}

\* C20: set_recent_blocks returns updated_event_count equal to the number of
\* channel_events rows whose block_is_valid changed in this call, and
\* updated_channels containing each channel with a changed row exactly once
\* and no other channel, each entry being that channel's get_channel_status
\* computed on the tables the call leaves behind.
RecentBlocksReport ==
    [][(/\ ret'.op = "setRecentBlocks"
        /\ ret'.exc = NULL)
       => (/\ ret'.val.updated_event_count = Cardinality(ChangedRows)
           /\ \E chans \in SetToSeqs(ChangedChannels) :
                 /\ Len(ret'.val.updated_channels) = Len(chans)
                 /\ \A i \in 1..Len(chans) :
                       \E st \in mcy_get_channel_status(DB', chans[i], TRUE) :
                           /\ st.exc = NULL
                           /\ st.val = ret'.val.updated_channels[i])]_vars

\* a call changed three rows of two channels
RecentBlocksReportWitness ==
    /\ ret.op = "setRecentBlocks"
    /\ ret.exc = NULL
    /\ ret.val.updated_event_count = 3
    /\ Len(ret.val.updated_channels) = 2

---------------------------------------------------------------------------
(* Frame of the reorg processor. *)

\* the step keeps the rows of channel_events, changes no column but
\* block_is_valid, and leaves every row below first and every row of another
\* chain as it was
RecentBlocksFrame(chain_id_, first) ==
    /\ Len(channel_events') = Len(channel_events)
    /\ \A i \in 1..Len(channel_events) :
          LET e == channel_events[i] IN
          /\ channel_events'[i] =
                 [e EXCEPT !.block_is_valid = channel_events'[i].block_is_valid]
          /\ (e.block_number < first \/ e.chain_id # chain_id_)
                 => channel_events'[i] = e

\* C21: set_recent_blocks(chain_id, first, H) leaves unchanged every
\* channel_events row with block_number < first and every row of another
\* chain_id, changes no column but block_is_valid of any row, and inserts and
\* deletes no channel_events row.
\* (Each step either keeps that frame or is not a step of
\* setRecentBlocks(chain_id, first, H).)
RecentBlocksKeepsFrame ==
    [][\A r \in ReorgInputs :
          \/ RecentBlocksFrame(r[1], r[2])
          \/ ~ (/\ ret'.op = "setRecentBlocks"
                /\ channel_events' =
                       update_block_is_valid(channel_events, r[1], r[2], r[3])
                /\ setRecentBlocks(r[1], r[2], r[3]))]_vars

\* a call changed one row of chain 1 in block 2 while a valid row of chain 1
\* in block 1 and a valid row of chain 2 are stored
RecentBlocksFrameWitness ==
    /\ ret.op = "setRecentBlocks"
    /\ ret.exc = NULL
    /\ ret.val.updated_event_count = 1
    /\ \E i, j, k \in 1..Len(channel_events) :
          /\ channel_events[i].chain_id = 1
          /\ channel_events[i].block_number = 2
          /\ channel_events[i].block_is_valid = Some(FALSE)
          /\ channel_events[j].chain_id = 1
          /\ channel_events[j].block_number = 1
          /\ channel_events[j].block_is_valid = Some(TRUE)
          /\ channel_events[k].chain_id = 2
          /\ channel_events[k].block_is_valid = Some(TRUE)

---------------------------------------------------------------------------
(* Aggregates of the fold. *)

\* the valid DidDeposit chain events of Chan1, and with intents its DidDeposit
\* intents without a block hash
CountedDeposits(include_intent) ==
    {ce \in SeqToSet(channel_events) :
        /\ ChanKey(ce) = Chan1
        /\ ce.block_is_valid = Some(TRUE)
        /\ ce.event_type = "DidDeposit"}
    \cup
    {ci \in SeqToSet(channel_intents) :
        /\ include_intent
        /\ ChanKey(ci) = Chan1
        /\ ci.block_hash = NULL
        /\ ci.event_type = "DidDeposit"}

RECURSIVE SumOfValues(_)
\* the sum of fields.value over a set of rows
SumOfValues(rows) ==
    IF rows = {} THEN 0
    ELSE LET r == CHOOSE x \in rows : TRUE
         IN  TextToNumeric(Val(r.fields.value.v)) + SumOfValues(rows \ {r})

\* C22: for a channel whose fold is not invalid, channel.value in
\* get_channel_status is the value of its DidCreateChannel event plus the sum
\* of fields.value over exactly the DidDeposit events that are valid now
\* (plus the DidDeposit intents without a block hash when intents are
\* included), so a deposit of an orphaned block stops counting and counts
\* again when its block is restored.
ValueIsCreatePlusDeposits ==
    \A inc \in IncludeIntent :
        \A events \in mcy_get_channel_events(DB, Chan1, inc) :
            LET st == channel_status(DB, Chan1, channel_fold(NullChannelResult, events))
            IN  (st.exc = NULL /\ st.val.is_invalid # Some(TRUE) /\ events # <<>>) =>
                    /\ events[1].event_type = "DidCreateChannel"
                    /\ st.val.channel # NULL
                    /\ Val(st.val.channel).value =
                           Some(NumericToText(
                               TextToNumeric(Val(events[1].fields.value.v))
                               + SumOfValues(CountedDeposits(inc))))

\* a reorganisation restored the block of a deposit, and the deposit counts
\* again
ValueRestoredWitness ==
    /\ ret.op = "setRecentBlocks"
    /\ ret.exc = NULL
    /\ ret.val.updated_event_count >= 1
    /\ \A i \in 1..Len(channel_events) :
          channel_events[i].block_is_valid = Some(TRUE)
    /\ \E i \in 1..Len(channel_events) : channel_events[i].event_type = "DidDeposit"
    /\ \A st \in mcy_get_channel_status(DB, Chan1, FALSE) :
          /\ st.exc = NULL
          /\ st.val.is_invalid = Some(FALSE)
          /\ Val(st.val.channel).value = Some("1")

\* a deposit of an orphaned block does not count
ValueOrphanedWitness ==
    /\ ret.op = "setRecentBlocks"
    /\ ret.exc = NULL
    /\ \E i \in 1..Len(channel_events) :
          /\ channel_events[i].event_type = "DidDeposit"
          /\ channel_events[i].block_is_valid = Some(FALSE)
    /\ \A st \in mcy_get_channel_status(DB, Chan1, FALSE) :
          /\ st.exc = NULL
          /\ st.val.is_invalid = Some(FALSE)
          /\ Val(st.val.channel).value = Some("0")

---------------------------------------------------------------------------
(* Order of intents and chain events. *)

\* C23: in every sequence get_channel_events(chan, true) returns, an intent
\* without a block hash at block_number N comes before every valid chain
\* event of the channel at block_number N.
IntentBeforeChainEvent ==
    \A chan \in Channels :
        \A events \in mcy_get_channel_events(DB, chan, TRUE) :
            \A i, j \in 1..Len(events) :
                (/\ events[i].block_hash = NULL
                 /\ events[j].block_hash # NULL
                 /\ events[i].block_number = events[j].block_number)
                => i < j

\* an intent without a block hash and a valid chain event of one channel
\* share a block number
IntentSharesBlockWitness ==
    \E chan \in Channels :
        \E events \in mcy_get_channel_events(DB, chan, TRUE) :
            \E i, j \in 1..Len(events) :
                /\ events[i].block_hash = NULL
                /\ events[j].block_hash # NULL
                /\ events[i].block_number = events[j].block_number

---------------------------------------------------------------------------
(* SpecLatest: the latest state of two channels under inserts of state *)
(* updates, channel events and reorganisations.                        *)

LatestUpdateInputs ==
    {MkStateUpdate(chan, a, TRUE) : chan \in {Chan1, Chan3}, a \in {"1", "2"}}
    \cup {MkStateUpdate(Chan1, "2", FALSE), MkStateUpdate(Chan1, "-1", TRUE)}

LatestEventInputs == {MkEvent(Chan1, <<2, "a">>, Create1)}

\* <<chain_id, first_block_num, block_hashes>>
LatestReorgInputs == {<<1, 2, <<>>>>, <<1, 2, <<"a">>>>}

JsonChan3 ==
    [chain_id |-> JNum(Chan3.chain_id), contract_id |-> JStr(Chan3.contract_id),
     channel_id |-> JStr(Chan3.channel_id)]

LatestInsertStateUpdate == \E su \in LatestUpdateInputs : insertStateUpdate(su)

LatestInsertEvent == \E event \in LatestEventInputs : insertChannelEvent(event)

LatestReorg == \E r \in LatestReorgInputs : setRecentBlocks(r[1], r[2], r[3])

LatestGetLatestState == \E channel \in {JsonChan1, JsonChan3} : getLatestState(channel)

NextLatest ==
    \/ LatestInsertStateUpdate
    \/ LatestInsertEvent
    \/ LatestReorg
    \/ LatestGetLatestState

SpecLatest == Init /\ [][NextLatest]_vars

\* the stored amounts of chan
AmountsOf(chan) ==
    {state_updates[i].amount : i \in
        {j \in 1..Len(state_updates) : ChanKey(state_updates[j]) = ChanKey(chan)}}

\* the amount get_latest_state returns for chan, -1 when it returns nothing
LatestAmount(chan) ==
    LET res == mcy_get_latest_state_update(DB, chan) IN
    IF res.exc # NULL \/ res.val = NULL THEN -1 ELSE Val(res.val).amount

\* C24: for every channel get_latest_state returns the stored state update
\* with the maximum amount, and over any sequence of operations (admitted,
\* duplicate and rejected inserts, channel events, reorganisations) the
\* amount it returns never decreases.
LatestStateIsMaximum ==
    [][\A chan \in {Chan1, Chan3} :
          /\ LatestAmount(chan)' >= LatestAmount(chan)
          /\ AmountsOf(chan)' = {} => LatestAmount(chan)' = -1
          /\ AmountsOf(chan)' # {} =>
                /\ LatestAmount(chan)' \in AmountsOf(chan)'
                /\ \A a \in AmountsOf(chan)' : a <= LatestAmount(chan)'
          /\ (/\ ret'.op = "getLatestState"
              /\ ChannelOfJson(ret'.arg) = chan
              /\ AmountsOf(chan)' # {})
             => /\ ret'.exc = NULL
                /\ ret'.val # NULL
                /\ Val(ret'.val).amount = NumericToText(LatestAmount(chan)')
                /\ ChanKey(Val(ret'.val)) = chan]_vars

\* the latest state of a channel was read after an update below its maximum
\* had been admitted
LatestStateIsMaximumWitness ==
    /\ ret.op = "getLatestState"
    /\ ret.exc = NULL
    /\ ret.val # NULL
    /\ Val(ret.val).amount = "2"
    /\ \E i, j \in 1..Len(state_updates) :
          /\ i < j
          /\ ChanKey(state_updates[i]) = ChanKey(Val(ret.val))
          /\ ChanKey(state_updates[j]) = ChanKey(Val(ret.val))
          /\ state_updates[i].amount = 2
          /\ state_updates[j].amount = 1

---------------------------------------------------------------------------
(* The stored amounts of a channel. *)

\* C25 as stated: for every channel the amounts of the rows of state_updates,
\* taken in the order of their ids, never decrease, all amounts are >= 0, and no two
\* rows of one channel have the same amount.
AmountsAscendById ==
    \A i, j \in 1..Len(state_updates) :
        /\ state_updates[i].amount >= 0
        /\ (i < j /\ ChanKey(state_updates[i]) = ChanKey(state_updates[j])) =>
              /\ state_updates[i].id < state_updates[j].id
              /\ state_updates[i].amount <= state_updates[j].amount
              /\ state_updates[i].amount # state_updates[j].amount

\* C25 amended: for every channel all amounts of the rows of state_updates
\* are >= 0 and no two rows of one channel have the same amount; the order of
\* admission need not be the order of the amounts.
AmountsDistinctAndNotNegative ==
    \A i, j \in 1..Len(state_updates) :
        /\ state_updates[i].amount >= 0
        /\ (i < j /\ ChanKey(state_updates[i]) = ChanKey(state_updates[j])) =>
              state_updates[i].amount # state_updates[j].amount

\* a channel has two stored state updates, the lower amount admitted last,
\* and a third insert of the channel was refused
TwoAmountsWitness ==
    /\ ret.op = "insertStateUpdate"
    /\ \E i, j \in 1..Len(state_updates) :
          /\ i < j
          /\ ChanKey(state_updates[i]) = ChanKey(state_updates[j])
          /\ state_updates[i].amount > state_updates[j].amount
    /\ invalid_state_updates # <<>>

---------------------------------------------------------------------------
(* Intents in the fold. *)

\* the events of a returned sequence the fold applies: those before the
\* offending one, all of them when there is none
AppliedEvents(events) ==
    IF Offending(events) = 0 THEN events
    ELSE SubSeq(events, 1, Offending(events) - 1)

\* C26: channel.state_is_intent in get_channel_status is true exactly when
\* the fold applied at least one event with null block_hash: it is true from
\* the first applied intent on for every later event of the fold, and false
\* when no intent is applied (none stored without a block hash, or intents
\* not included); a channel no event was applied to is null.
StateIsIntentIffIntentApplied ==
    \A inc \in IncludeIntent :
        \A events \in mcy_get_channel_events(DB, Chan1, inc) :
            LET applied == AppliedEvents(events) IN
            \A k \in 0..Len(applied) :
                LET st == channel_status(DB, Chan1,
                              channel_fold(NullChannelResult, SubSeq(applied, 1, k)))
                IN  /\ st.exc = NULL
                    /\ st.val.channel = NULL <=> k = 0
                    /\ k > 0 =>
                          Val(st.val.channel).state_is_intent =
                              Some(\E i \in 1..k : applied[i].block_hash = NULL)

\* a DidStartSettle intent was inserted on an open channel: the status is
\* CS_SETTLING with state_is_intent true
StateIsIntentWitness ==
    /\ ret.op = "insertChannelIntent"
    /\ ret.exc = NULL
    /\ ret.val.is_invalid = Some(FALSE)
    /\ ret.val.channel # NULL
    /\ Val(ret.val.channel).state = Some("CS_SETTLING")
    /\ Val(ret.val.channel).state_is_intent = Some(TRUE)
    /\ Val(ret.val.latest_intent_event).event_type = "DidStartSettle"
    /\ ret.val.latest_chain_event # NULL

\* a chain event was applied after an intent, and state_is_intent stayed true
StateIsIntentStaysWitness ==
    \E events \in mcy_get_channel_events(DB, Chan1, TRUE) :
        /\ Len(AppliedEvents(events)) >= 2
        /\ events[1].block_hash = NULL
        /\ events[2].block_hash # NULL

\* the chain event matching the only intent of the channel was inserted, and
\* state_is_intent is false again
StateIsIntentClearedWitness ==
    /\ ret.op = "insertChannelEvent"
    /\ ret.exc = NULL
    /\ channel_intents # <<>>
    /\ \A i \in 1..Len(channel_intents) : channel_intents[i].block_hash # NULL
    /\ ret.val.channel # NULL
    /\ Val(ret.val.channel).state_is_intent = Some(FALSE)

---------------------------------------------------------------------------
(* The latest events of a status. *)

\* the events of a returned sequence the fold looks at: up to and including
\* the offending one
LookedAt(events) ==
    IF Offending(events) = 0 THEN events
    ELSE SubSeq(events, 1, Offending(events))

\* the last event of a sequence, NULL for the empty one
LastOf(events) == IF events = <<>> THEN NULL ELSE Some(events[Len(events)])

\* C27: in every get_channel_status result latest_event is the last event
\* the fold looked at (the offending event when is_invalid is true),
\* latest_chain_event and latest_intent_event are the last looked-at events
\* with and without a block hash; so latest_event is one of those two, and it
\* is null exactly when both are null, which is the channel without visible
\* events, whose channel is null too.
LatestEventsAreLastLookedAt ==
    \A inc \in IncludeIntent :
        \A events \in mcy_get_channel_events(DB, Chan1, inc) :
            LET st == channel_status(DB, Chan1, channel_fold(NullChannelResult, events))
                looked == LookedAt(events)
            IN  /\ st.exc = NULL
                /\ st.val.latest_event = LastOf(looked)
                /\ st.val.latest_chain_event =
                       LastOf(SelectSeq(looked, LAMBDA e : e.block_hash # NULL))
                /\ st.val.latest_intent_event =
                       LastOf(SelectSeq(looked, LAMBDA e : e.block_hash = NULL))
                /\ st.val.is_invalid = Some(TRUE) =>
                       st.val.latest_event = Some(events[Offending(events)])
                /\ st.val.latest_event
                       \in {st.val.latest_chain_event, st.val.latest_intent_event}
                /\ st.val.latest_event = NULL <=>
                       (st.val.latest_chain_event = NULL
                        /\ st.val.latest_intent_event = NULL)
                /\ st.val.latest_event = NULL <=> events = <<>>
                /\ events = <<>> => st.val.channel = NULL

\* an intent was refused by the fold after chain events: it is latest_event
\* and latest_intent_event, beside a latest_chain_event
LatestEventsWitness ==
    /\ ret.op = "insertChannelIntent"
    /\ ret.exc = NULL
    /\ ret.val.is_invalid = Some(TRUE)
    /\ ret.val.latest_event # NULL
    /\ ret.val.latest_event = ret.val.latest_intent_event
    /\ ret.val.latest_chain_event # NULL
    /\ ret.val.channel # NULL

---------------------------------------------------------------------------
(* Invalid channels under reorganisations. *)

\* the event sequence follows the lifecycle: every event comes in a state its
\* type allows, the state being the one the event before it leaves
Consistent(events) ==
    \A k \in 1..Len(events) :
        (IF k = 1 THEN "NULL" ELSE LifecycleAfter(events[k - 1].event_type))
            \in LifecycleBefore(events[k].event_type)

\* the status of Chan1 is invalid because of a chain event the step marks
\* invalid
OffendingEventOrphaned ==
    \E events \in mcy_get_channel_events(DB, Chan1, TRUE) :
        /\ Offending(events) > 0
        /\ events[Offending(events)].block_hash # NULL
        /\ \E i \in 1..Len(channel_events) :
              /\ channel_events[i] = events[Offending(events)]
              /\ channel_events'[i].block_is_valid = Some(FALSE)

\* C28: is_invalid is not sticky: when get_channel_status reports is_invalid
\* = true because of an offending chain event and set_recent_blocks marks
\* that event's block invalid, the status after the call (the one the call
\* returns in updated_channels) is computed from the surviving events only:
\* it is not invalid when they follow the lifecycle, and then every
\* surviving event, those after the former stopping point included, is
\* applied.
InvalidIsNotSticky ==
    [][(/\ ret'.op = "setRecentBlocks"
        /\ ret'.exc = NULL
        /\ ret'.val.updated_event_count >= 1
        /\ OffendingEventOrphaned)
       => (/\ \E i \in 1..Len(ret'.val.updated_channels) :
                 \E st \in mcy_get_channel_status(DB', Chan1, TRUE) :
                     st.val = ret'.val.updated_channels[i]
           /\ \A events \in mcy_get_channel_events(DB', Chan1, TRUE) :
                 LET st == channel_status(DB', Chan1,
                               channel_fold(NullChannelResult, events))
                 IN  /\ st.exc = NULL
                     /\ \A k \in 1..Len(events) :
                           /\ events[k].block_hash # NULL =>
                                 \E i \in 1..Len(channel_events') :
                                     /\ channel_events'[i] = events[k]
                                     /\ events[k].block_is_valid = Some(TRUE)
                     /\ Consistent(events) =>
                           /\ st.val.is_invalid # Some(TRUE)
                           /\ events # <<>> => st.val.is_invalid = Some(FALSE)
                           /\ st.val.latest_event = LastOf(events)
                           /\ AppliedEvents(events) = events)]_vars

\* a reorganisation orphaned a chain event; the status it returns is not
\* invalid and its latest event lies in a block after the first stored
\* event's, which is orphaned
InvalidIsNotStickyWitness ==
    /\ ret.op = "setRecentBlocks"
    /\ ret.exc = NULL
    /\ Len(ret.val.updated_channels) = 1
    /\ ret.val.updated_channels[1].is_invalid = Some(FALSE)
    /\ \E i \in 1..Len(channel_events) :
          LET e == channel_events[i] IN
          /\ ChanKey(e) = Chan1
          /\ e.block_is_valid = Some(FALSE)
          /\ e.event_type = "DidDeposit"
          /\ OrderByLE(e, Val(ret.val.updated_channels[1].latest_event))
          /\ ~ OrderByLE(Val(ret.val.updated_channels[1].latest_event), e)

---------------------------------------------------------------------------
(* SpecPair: insert_channel_event and insert_channel_intent in concurrent  *)
(* sessions under READ COMMITTED.  A session runs its statements, reading  *)
(* what is committed then, and commits in a later step; until then its     *)
(* rows are invisible to the other sessions.  Ids are the positions in     *)
(* commit order.  One event insert is in flight at a time: two of them     *)
(* that update the same intent would queue on its row lock.                *)

PairEventInputs ==
    {MkEvent(Chan1, <<1, "a">>, Create1), MkEvent(Chan1, <<2, "a">>, Deposit1)}

PairIntentInputs == {MkIntent(Chan1, 1, Create1), MkIntent(Chan1, 2, Deposit1)}

\* session i has run its statements and not committed
Uncommitted(i) == session[i].pc = "inserted"

\* a session inserts the event: the trigger updates the intents committed by
\* now, and the status is read
BeginInsertChannelEvent(event) ==
    /\ Len(session) < MaxSessions
    /\ RowCount < MaxRows
    /\ \A j \in 1..Len(session) :
          ~ (Uncommitted(j) /\ session[j].op = "insertChannelEvent")
    /\ \E o \in mcy_insert_channel_event(DB, event) :
          session' = Append(session,
              [pc |-> "inserted", op |-> "insertChannelEvent", arg |-> event,
               seen |-> Len(channel_intents), block_hash |-> NULL,
               started |-> now, result |-> o.ret])
    /\ UNCHANGED <<state_updates, invalid_state_updates, channel_events,
                   channel_intents, now, ret>>

\* a session inserts the intent and sets its block_hash from the events
\* committed by now (lines 357-359); now() is the start of its transaction
BeginInsertChannelIntent(intent) ==
    /\ Len(session) < MaxSessions
    /\ RowCount < MaxRows
    /\ \E o \in mcy_insert_channel_intent(DB, intent) :
          session' = Append(session,
              [pc |-> "inserted", op |-> "insertChannelIntent", arg |-> intent,
               seen |-> Len(channel_intents),
               block_hash |->
                   mcy_get_intent_block_hash(
                       channel_events, IntentRow(0, intent, now)),
               started |-> now, result |-> o.ret])
    /\ now' = now + 1
    /\ UNCHANGED <<state_updates, invalid_state_updates, channel_events,
                   channel_intents, ret>>

\* the tables after session i commits: nothing when its call raised
Committed(i) ==
    LET s == session[i]
        row == EventRow(Len(channel_events) + 1, s.arg)
        intent == [IntentRow(Len(channel_intents) + 1, s.arg, s.started)
                      EXCEPT !.block_hash = s.block_hash]
    IN  IF s.result.exc # NULL THEN DB
        ELSE IF s.op = "insertChannelEvent"
        THEN [DB EXCEPT
                 !.channel_events = Append(@, row),
                 !.channel_intents =
                     trigger_on_insert(SubSeq(@, 1, s.seen), row)
                     \o SubSeq(@, s.seen + 1, Len(@))]
        ELSE [DB EXCEPT !.channel_intents = Append(@, intent)]

\* session i commits and its caller gets the result
FinishInsert(i) ==
    /\ Uncommitted(i)
    /\ Commit([db |-> Committed(i), ret |-> session[i].result],
              session[i].op, session[i].arg)
    /\ session' = [session EXCEPT ![i].pc = "done"]

\* an event insert in one step; it would wait for the row locks of an event
\* insert in flight
PairSeqInsertEvent ==
    /\ \A j \in 1..Len(session) :
          ~ (Uncommitted(j) /\ session[j].op = "insertChannelEvent")
    /\ \E event \in PairEventInputs : insertChannelEvent(event)

PairSeqInsertIntent == \E intent \in PairIntentInputs : insertChannelIntent(intent)

PairBeginEvent == \E event \in PairEventInputs : BeginInsertChannelEvent(event)

PairBeginIntent == \E intent \in PairIntentInputs : BeginInsertChannelIntent(intent)

PairFinish == \E i \in 1..Len(session) : FinishInsert(i)

NextPair ==
    \/ PairSeqInsertEvent
    \/ PairSeqInsertIntent
    \/ PairBeginEvent
    \/ PairBeginIntent
    \/ PairFinish

SpecPair == Init /\ [][NextPair]_vars

\* C29: when insert_channel_event and insert_channel_intent for a matching
\* pair of one channel run concurrently, neither seeing the other's
\* uncommitted row, then after both have committed the intent carries the
\* block_hash of the chain event: every intent has the block_hash of its
\* valid matching chain event with the highest id, NULL when there is none.
PairCorrelatedAfterCommit ==
    AllDone =>
        \A i \in 1..Len(channel_intents) :
            LET I == channel_intents[i]
                M == ValidMatches(I)
            IN  /\ M = {} => I.block_hash = NULL
                /\ M # {} => I.block_hash = MaxIdRow(M).block_hash

\* an event insert and an insert of its matching intent overlapped, both have
\* committed, and the intent has no block_hash
PairOverlapWitness ==
    /\ Len(session) = 2
    /\ AllDone
    /\ session[1].op # session[2].op
    /\ session[1].result.exc = NULL
    /\ session[2].result.exc = NULL
    /\ \E i \in 1..Len(channel_intents) :
          /\ ValidMatches(channel_intents[i]) # {}
          /\ channel_intents[i].block_hash = NULL

---------------------------------------------------------------------------
(* SpecLog: every call of the class on one channel, the four tables under  *)
(* all of them.                                                            *)

LogUpdateInputs ==
    {MkStateUpdate(Chan1, "1", TRUE), MkStateUpdate(Chan1, "2", TRUE),
     MkStateUpdate(Chan1, "-1", TRUE), MkStateUpdate(Chan1, "2", FALSE)}

LogEventInputs ==
    {MkEvent(Chan1, <<1, "a">>, Create1), MkEvent(Chan1, <<1, "a">>, Deposit1),
     MkEvent(Chan1, <<2, "a">>, Deposit1)}

LogIntentInputs == {MkIntent(Chan1, 1, Create1), MkIntent(Chan1, 2, Deposit1)}

\* <<chain_id, first_block_num, block_hashes>>
LogReorgInputs == {<<1, 1, <<"b">>>>, <<1, 1, <<"a", "a">>>>, <<1, 2, <<>>>>}

\* the rows of the four tables
LogRowCount == RowCount + UpdateCount

getChannelStatus(channel, includeIntent) ==
    /\ \E r \in mcy_get_channel_status(DB, channel, includeIntent) :
          Commit([db |-> DB, ret |-> r], "getChannelStatus", channel)
    /\ UNCHANGED session

LogInsertStateUpdate ==
    /\ LogRowCount < MaxRows
    /\ \E su \in LogUpdateInputs : insertStateUpdate(su)

LogInsertEvent ==
    /\ LogRowCount < MaxRows
    /\ \E event \in LogEventInputs : insertChannelEvent(event)

LogInsertIntent ==
    /\ LogRowCount < MaxRows
    /\ \E intent \in LogIntentInputs : insertChannelIntent(intent)

LogReorg == \E r \in LogReorgInputs : setRecentBlocks(r[1], r[2], r[3])

LogGetStateUpdateStatus == \E su \in LogUpdateInputs : getStateUpdateStatus(su)

LogGetLatestState == getLatestState(JsonChan1)

LogGetChannelStatus == \E b \in BOOLEAN : getChannelStatus(Chan1, b)

NextLog ==
    \/ LogInsertStateUpdate
    \/ LogInsertEvent
    \/ LogInsertIntent
    \/ LogReorg
    \/ LogGetStateUpdateStatus
    \/ LogGetLatestState
    \/ LogGetChannelStatus

SpecLog == Init /\ [][NextLog]_vars

\* every row of old is a row of new, at its place
KeepsRows(old, new) ==
    /\ Len(new) >= Len(old)
    /\ \A i \in 1..Len(old) : new[i] = old[i]

\* as KeepsRows, the column col of a row left aside
KeepsRowsBut(old, new, col) ==
    /\ Len(new) >= Len(old)
    /\ \A i \in 1..Len(old) : [new[i] EXCEPT ![col] = old[i][col]] = old[i]

\* some row of old has another value in the column col of new
ColumnChanged(old, new, col) ==
    \E i \in 1..Len(old) : new[i][col] # old[i][col]

\* C30: no call deletes a row of state_updates, channel_events,
\* channel_intents or invalid_state_updates; on the rows there are, a call
\* changes nothing but channel_events.block_is_valid, and that only in
\* set_recent_blocks, and channel_intents.block_hash, and that only in the
\* correlation an event insert or a set_recent_blocks runs.
LogsAreAppendOnly ==
    [][/\ KeepsRows(state_updates, state_updates')
       /\ KeepsRows(invalid_state_updates, invalid_state_updates')
       /\ KeepsRowsBut(channel_events, channel_events', "block_is_valid")
       /\ KeepsRowsBut(channel_intents, channel_intents', "block_hash")
       /\ ColumnChanged(channel_events, channel_events', "block_is_valid")
              => ret'.op = "setRecentBlocks"
       /\ ColumnChanged(channel_intents, channel_intents', "block_hash")
              => ret'.op \in {"insertChannelEvent", "setRecentBlocks"}]_vars

\* a reorganisation has flagged an event and taken the block_hash from its
\* intent, next to a stored state update
LogsChangedWitness ==
    /\ ret.op = "setRecentBlocks"
    /\ ret.exc = NULL
    /\ ret.val.updated_event_count = 1
    /\ state_updates # <<>>
    /\ \E i \in 1..Len(channel_events) :
          channel_events[i].block_is_valid = Some(FALSE)
    /\ \E i \in 1..Len(channel_intents) : channel_intents[i].block_hash = NULL

---------------------------------------------------------------------------
(* SpecValid: events that carry a block_is_valid of their own, under       *)
(* reorganisations.                                                        *)

\* an event with a block_is_valid key
WithValidity(event, v) ==
    [f \in DOMAIN event \cup {"block_is_valid"} |->
        IF f = "block_is_valid" THEN v ELSE event[f]]

ValidEventInputs ==
    {WithValidity(MkEvent(Chan1, b, p), v) :
        b \in {<<1, "a">>, <<2, "a">>}, p \in {Create1, Deposit1},
        v \in BOOLEAN}

ValidIntentInputs == {MkIntent(Chan1, 1, Create1), MkIntent(Chan1, 2, Deposit1)}

\* <<chain_id, first_block_num, block_hashes>>
ValidReorgInputs == {<<1, 1, <<"b">>>>, <<1, 1, <<"a", "b">>>>, <<1, 1, <<"a", "a">>>>}

ValidInsertEvent == \E event \in ValidEventInputs : insertChannelEvent(event)

ValidInsertIntent == \E intent \in ValidIntentInputs : insertChannelIntent(intent)

ValidReorg == \E r \in ValidReorgInputs : setRecentBlocks(r[1], r[2], r[3])

NextValid == ValidInsertEvent \/ ValidInsertIntent \/ ValidReorg

SpecValid == Init /\ [][NextValid]_vars

\* C31: every row insert_channel_event writes has block_is_valid = true,
\* whatever block_is_valid the event carries and whatever earlier
\* set_recent_blocks calls said of its block; the block_is_valid of a row
\* changes in set_recent_blocks only.
InsertedEventIsValid ==
    [][/\ Len(channel_events') > Len(channel_events) =>
              /\ ret'.op = "insertChannelEvent"
              /\ Len(channel_events') = Len(channel_events) + 1
              /\ channel_events'[Len(channel_events')].block_is_valid = Some(TRUE)
       /\ (ret'.op = "insertChannelEvent" /\ ret'.exc = NULL) =>
              Len(channel_events') = Len(channel_events) + 1
       /\ (\E i \in 1..Len(channel_events) :
              channel_events'[i].block_is_valid # channel_events[i].block_is_valid)
              => ret'.op = "setRecentBlocks"]_vars

\* an event that says block_is_valid = false has been inserted in a block a
\* reorganisation had replaced: its row is valid next to the orphaned one
InsertedEventIsValidWitness ==
    /\ ret.op = "insertChannelEvent"
    /\ ret.exc = NULL
    /\ ret.arg.block_is_valid = FALSE
    /\ LET n == Len(channel_events) IN
       /\ n >= 2
       /\ channel_events[n].block_is_valid = Some(TRUE)
       /\ \E i \in 1..(n - 1) :
             /\ channel_events[i].block_number = channel_events[n].block_number
             /\ channel_events[i].block_hash = channel_events[n].block_hash
             /\ channel_events[i].block_is_valid = Some(FALSE)

---------------------------------------------------------------------------
(* The chain-only view of a channel. *)

\* a status that shows no intent
ShowsNoIntent(r) ==
    r.exc = NULL =>
        /\ r.val.latest_intent_event = NULL
        /\ r.val.channel # NULL =>
              Val(r.val.channel).state_is_intent # Some(TRUE)

\* the tables after the step
DBNext ==
    [state_updates |-> state_updates',
     invalid_state_updates |-> invalid_state_updates',
     channel_events |-> channel_events',
     channel_intents |-> channel_intents',
     now |-> now']

\* C32: get_channel_status(chan, false) and get_channel_events(chan, false)
\* read valid chain events and state updates only: no returned row is an
\* intent or an orphaned event, the status never has a latest_intent_event
\* or state_is_intent = true, and both results are the same before and after
\* every insert_channel_intent.  (The tables are empty at first and the
\* views change with the tables only.)
ChainViewIgnoresIntents ==
    [][/\ DBNext # DB =>
             /\ \A events \in mcy_get_channel_events(DBNext, Chan1, FALSE) :
                   \A i \in 1..Len(events) :
                       /\ events[i].block_hash # NULL
                       /\ events[i].block_is_valid = Some(TRUE)
             /\ \A r \in mcy_get_channel_status(DBNext, Chan1, FALSE) :
                   ShowsNoIntent(r)
       /\ ret'.op = "insertChannelIntent" =>
             /\ mcy_get_channel_events(DBNext, Chan1, FALSE)
                    = mcy_get_channel_events(DB, Chan1, FALSE)
             /\ mcy_get_channel_status(DBNext, Chan1, FALSE)
                    = mcy_get_channel_status(DB, Chan1, FALSE)]_vars

\* an intent has been inserted on a channel with a valid chain event and is
\* pending: the view with intents shows it, the chain-only view does not
ChainViewWitness ==
    /\ ret.op = "insertChannelIntent"
    /\ ret.exc = NULL
    /\ ret.val.latest_intent_event # NULL
    /\ ret.val.channel # NULL
    /\ Val(ret.val.channel).state_is_intent = Some(TRUE)
    /\ \E i \in 1..Len(channel_events) :
          channel_events[i].block_is_valid = Some(TRUE)
    /\ \A r \in mcy_get_channel_status(DB, Chan1, FALSE) :
          r.exc = NULL /\ r.val.latest_chain_event # NULL

---------------------------------------------------------------------------
(* SpecIso: four channels that differ in one part of the key each, with   *)
(* the same events and intents.                                            *)

Chan4 == [chain_id |-> 1, contract_id |-> "d", channel_id |-> "a"]

IsoChannels == {Chan1, Chan2, Chan3, Chan4}

IsoEventInputs ==
    {MkEvent(chan, b, Create1) : chan \in IsoChannels, b \in {<<1, "a">>, <<2, "b">>}}

IsoIntentInputs == {MkIntent(chan, 1, Create1) : chan \in IsoChannels}

IsoInsertEvent == \E event \in IsoEventInputs : insertChannelEvent(event)

IsoInsertIntent == \E intent \in IsoIntentInputs : insertChannelIntent(intent)

NextIso == IsoInsertEvent \/ IsoInsertIntent

SpecIso == Init /\ [][NextIso]_vars

\* C33: insert_channel_event and insert_channel_intent for a channel A, with
\* the correlation they run, leave what get_channel_events returns for every
\* other channel B as it was, with and without intents, also when B holds
\* an event or intent with the same sender, event_type and fields.
InsertKeepsOtherChannels ==
    [][ret'.op \in {"insertChannelEvent", "insertChannelIntent"} =>
          \A B \in IsoChannels \ {ChanKey(ret'.arg)} :
              \A include_intent \in BOOLEAN :
                  mcy_get_channel_events(DBNext, B, include_intent)
                      = mcy_get_channel_events(DB, B, include_intent)]_vars

\* an event of Chan1 has taken its intent along while the three other
\* channels hold pending intents with the same sender, event_type and fields
InsertKeepsOtherChannelsWitness ==
    /\ ret.op = "insertChannelEvent"
    /\ ret.exc = NULL
    /\ ChanKey(ret.arg) = Chan1
    /\ \E i \in 1..Len(channel_intents) :
          /\ ChanKey(channel_intents[i]) = Chan1
          /\ channel_intents[i].block_hash = Some(ret.arg.block_hash)
    /\ \E i \in 1..Len(channel_intents) :
          /\ ChanKey(channel_intents[i]) # Chan1
          /\ channel_intents[i].sender = ret.arg.sender
          /\ channel_intents[i].event_type = ret.arg.event_type
          /\ channel_intents[i].fields = ret.arg.fields
          /\ channel_intents[i].block_number <= ret.arg.block_number
          /\ channel_intents[i].block_hash = NULL

---------------------------------------------------------------------------
(* What insert_state_update returns, against the reads after it. *)

\* C34 as stated (violated when two events of one block have equal sort
\* keys): a successful insert_state_update returns the latest_state that
\* get_latest_state returns right after the call, channel_payment equal to
\* that state's amount, and channel_remaining_balance equal to the
\* current_remaining_balance of get_channel_status(chan, true) right after
\* the call, null when the channel has no value.
InsertReturnsWhatReadsReturn ==
    [][(/\ ret'.op = "insertStateUpdate"
        /\ ret'.exc = NULL
        /\ "created" \in DOMAIN ret'.val) =>
          LET latest == mcy_get_latest_state_update(DBNext, ret'.arg)
              statuses == mcy_get_channel_status(DBNext, ret'.arg, TRUE)
          IN  /\ latest.exc = NULL
              /\ latest.val # NULL
              /\ ret'.val.latest_state = mcy_state_update_row_to_json(latest.val)
              /\ ret'.val.channel_payment
                     = Some(Val(ret'.val.latest_state).amount)
              /\ \A st \in statuses :
                    /\ st.exc = NULL
                    /\ st.val.current_remaining_balance
                           = ret'.val.channel_remaining_balance
                    /\ (st.val.channel = NULL \/ Val(st.val.channel).value = NULL)
                           => ret'.val.channel_remaining_balance = NULL]_vars

\* a state update below the latest one has been admitted on a channel with a
\* value: the call returned the earlier, higher state
InsertReturnsWitness ==
    /\ ret.op = "insertStateUpdate"
    /\ ret.exc = NULL
    /\ "created" \in DOMAIN ret.val
    /\ ret.val.created
    /\ ~ ret.val.is_latest
    /\ ret.val.channel_remaining_balance # NULL

\* a state update has been admitted on a channel that was never created
InsertReturnsNoValueWitness ==
    /\ ret.op = "insertStateUpdate"
    /\ ret.exc = NULL
    /\ "created" \in DOMAIN ret.val
    /\ ret.val.created
    /\ ret.val.channel_remaining_balance = NULL

---------------------------------------------------------------------------
(* The big-endian packers.  A numeric or bigint argument is a record       *)
(* [neg, mag, frac]: its sign, the limbs of the integer part of its        *)
(* magnitude in base LimbBase with the lowest limb first and no zero limb  *)
(* at the top, and whether it has decimal places.  Hex text is a sequence  *)
(* of characters.                                                          *)

LimbBase == 65536

RECURSIVE Normalize(_)
\* mag without zero limbs at the top
Normalize(mag) ==
    IF mag = <<>> THEN <<>>
    ELSE IF mag[Len(mag)] = 0 THEN Normalize(SubSeq(mag, 1, Len(mag) - 1))
    ELSE mag

\* val % 256
BigMod256(mag) == IF mag = <<>> THEN 0 ELSE mag[1] % 256

\* the integer quotient of val / 256
BigDiv256(mag) ==
    Normalize([i \in 1..Len(mag) |->
                  (mag[i] \div 256)
                  + (IF i < Len(mag) THEN (mag[i + 1] % 256) * 256 ELSE 0)])

RECURSIVE BigMulAdd(_, _, _)
\* mag * m + c for small m and c
BigMulAdd(mag, m, c) ==
    IF mag = <<>> THEN (IF c = 0 THEN <<>> ELSE <<c>>)
    ELSE LET s == mag[1] * m + c
         IN  <<s % LimbBase>> \o BigMulAdd(Tail(mag), m, s \div LimbBase)

\* mag - k for k no greater than the lowest limb
BigSubSmall(mag, k) == Normalize([mag EXCEPT ![1] = @ - k])

RECURSIVE BigGE(_, _)
\* a >= b
BigGE(a, b) ==
    IF Len(a) # Len(b) THEN Len(a) > Len(b)
    ELSE IF a = <<>> THEN TRUE
    ELSE IF a[Len(a)] # b[Len(b)] THEN a[Len(a)] > b[Len(b)]
    ELSE BigGE(SubSeq(a, 1, Len(a) - 1), SubSeq(b, 1, Len(b) - 1))

HexDigits ==
    <<"0", "1", "2", "3", "4", "5", "6", "7", "8", "9", "a", "b", "c", "d", "e", "f">>

\* to_hex(n) of 0 <= n < 256: no leading zero
to_hex(n) ==
    IF n < 16 THEN <<HexDigits[n + 1]>>
    ELSE <<HexDigits[(n \div 16) + 1], HexDigits[(n % 16) + 1]>>

\* repeat('00', n)
RepeatZeros(n) == [i \in 1..(2 * n) |-> "0"]

\* 257 * 10^16: from here on the quotient of a numeric division by 256 has
\* 16 significant digits before the point, and "/" gives it scale 0
NumericDivScaleZeroFrom == <<0, 12481, 31074, 9130>>

\* trunc(val / 256) of a numeric val > 0 without decimal places: "/" rounds
\* the quotient to its result scale before trunc sees it
numeric_trunc_div(mag) ==
    IF BigGE(mag, NumericDivScaleZeroFrom) /\ BigMod256(mag) >= 128
    THEN BigMulAdd(BigDiv256(mag), 1, 1)
    ELSE BigDiv256(mag)

\* a bigint q < 2^55 cast to double precision and back: 53 bits are kept,
\* rounding to nearest, ties to even
Float8OfBigint(q) ==
    LET top == IF Len(q) = 4 THEN q[4] ELSE 0 IN
    IF top < 32 THEN q
    ELSE IF top < 64
    THEN IF q[1] % 2 = 0 THEN q
         ELSE IF q[1] % 4 = 3 THEN BigMulAdd(q, 1, 1) ELSE BigSubSmall(q, 1)
    ELSE CASE q[1] % 4 = 0 -> q
           [] q[1] % 4 = 1 -> BigSubSmall(q, 1)
           [] q[1] % 4 = 3 -> BigMulAdd(q, 1, 1)
           [] OTHER -> IF q[1] % 8 = 6 THEN BigMulAdd(q, 1, 2)
                       ELSE BigSubSmall(q, 2)

\* trunc(val / 256) of a bigint val > 0: "/" is the integer division and
\* trunc is the one of double precision
bigint_trunc_div(mag) == Float8OfBigint(BigDiv256(mag))

RECURSIVE pack_numeric_loop(_, _)
\* the while loop of mcy_pack_numeric_big_endian_bytes
pack_numeric_loop(mag, result) ==
    IF mag = <<>> THEN result
    ELSE
        LET byte_val == BigMod256(mag)
            byte_hex == IF byte_val < 16 THEN <<"0">> \o to_hex(byte_val)
                        ELSE to_hex(byte_val)
        IN  pack_numeric_loop(numeric_trunc_div(mag), byte_hex \o result)

\* [exc, val]
mcy_pack_numeric_big_endian_bytes(num_bytes, val) ==
    LET result == IF val.neg THEN <<>> ELSE pack_numeric_loop(val.mag, <<>>) IN
    IF val.frac
    THEN [exc |-> Some("value must not have decimal places"), val |-> NULL]
    ELSE IF Len(result) \div 2 > num_bytes
    THEN [exc |-> Some("value too large"), val |-> NULL]
    ELSE [exc |-> NULL,
          val |-> Some(RepeatZeros(num_bytes - (Len(result) \div 2)) \o result)]

RECURSIVE pack_bigint_loop(_, _)
\* the while loop of mcy_pack_bigint_big_endian_bytes
pack_bigint_loop(mag, result) ==
    IF mag = <<>> THEN result
    ELSE
        LET byte_val == BigMod256(mag)
            byte_hex == IF byte_val < 16 THEN <<"0">> \o to_hex(byte_val)
                        ELSE to_hex(byte_val)
        IN  pack_bigint_loop(bigint_trunc_div(mag), byte_hex \o result)

\* [exc, val]; val is a bigint, so val.frac is false
mcy_pack_bigint_big_endian_bytes(num_bytes, val) ==
    LET result == IF val.neg THEN <<>> ELSE pack_bigint_loop(val.mag, <<>>) IN
    IF Len(result) \div 2 > num_bytes
    THEN [exc |-> Some("value too large"), val |-> NULL]
    ELSE [exc |-> NULL,
          val |-> Some(RepeatZeros(num_bytes - (Len(result) \div 2)) \o result)]

---------------------------------------------------------------------------
(* SpecPack: the packers on widths and values.                             *)

MkVal(neg, mag, frac) == [neg |-> neg, mag |-> mag, frac |-> frac]

\* num_bytes
PackWidths == {1, 3, 4, 8, 9}

\* 0, 1, 255, 256, 0xaa00, 0xaabb, 0xaa000000, 0xaabbccdd, 2^32,
\* 3 * 10^18 + 255, 2^62 + 256, 2^63 - 1
PackMagnitudes ==
    {<<>>, <<1>>, <<255>>, <<256>>, <<43520>>, <<43707>>, <<0, 43520>>,
     <<52445, 43707>>, <<0, 0, 1>>, <<255, 63020, 9242, 10658>>,
     <<256, 0, 0, 16384>>, <<65535, 65535, 65535, 32767>>}

\* every bigint is a numeric too
PackBigintInputs ==
    {MkVal(FALSE, mag, FALSE) : mag \in PackMagnitudes}
    \cup {MkVal(TRUE, <<1>>, FALSE), MkVal(TRUE, <<43707>>, FALSE)}

\* with 2^64, 1.5 and -1.5
PackNumericInputs ==
    PackBigintInputs
    \cup {MkVal(FALSE, <<0, 0, 0, 0, 1>>, FALSE), MkVal(FALSE, <<1>>, TRUE),
          MkVal(TRUE, <<1>>, TRUE)}

PackNumeric ==
    /\ \E num_bytes \in PackWidths, val \in PackNumericInputs :
          Commit([db |-> DB,
                  ret |-> mcy_pack_numeric_big_endian_bytes(num_bytes, val)],
                 "mcy_pack_numeric_big_endian_bytes",
                 [num_bytes |-> num_bytes, val |-> val])
    /\ UNCHANGED session

PackBigint ==
    /\ \E num_bytes \in PackWidths, val \in PackBigintInputs :
          Commit([db |-> DB,
                  ret |-> mcy_pack_bigint_big_endian_bytes(num_bytes, val)],
                 "mcy_pack_bigint_big_endian_bytes",
                 [num_bytes |-> num_bytes, val |-> val])
    /\ UNCHANGED session

NextPack == PackNumeric \/ PackBigint

SpecPack == Init /\ [][NextPack]_vars

\* the last call was one of a packer
Packed ==
    ret.op \in {"mcy_pack_numeric_big_endian_bytes",
                "mcy_pack_bigint_big_endian_bytes"}

RECURSIVE ByteCount(_)
\* the bytes a magnitude needs
ByteCount(mag) == IF mag = <<>> THEN 0 ELSE 1 + ByteCount(BigDiv256(mag))

\* 0 <= val < 256^num_bytes, val an integer
FitsIn(num_bytes, val) ==
    ~ val.neg /\ ~ val.frac /\ ByteCount(val.mag) <= num_bytes

RECURSIVE BigEndianHex(_, _)
\* the n_bytes lowest bytes of a magnitude, highest first, two lowercase
\* hex characters each
BigEndianHex(n_bytes, mag) ==
    IF n_bytes = 0 THEN <<>>
    ELSE BigEndianHex(n_bytes - 1, BigDiv256(mag))
         \o <<HexDigits[(BigMod256(mag) \div 16) + 1],
              HexDigits[(BigMod256(mag) % 16) + 1]>>

\* C35 as stated: pack(n_bytes, value) returns the 2 * n_bytes lowercase hex
\* characters of the big-endian encoding of value, left-padded with zeros,
\* for every integer 0 <= value < 256^n_bytes; it fails for every value
\* >= 256^n_bytes and for every value with decimal places; the bigint and
\* the numeric packer return the same for every value both take.
PackIsBigEndian ==
    Packed =>
        LET n_bytes == ret.arg.num_bytes
            value == ret.arg.val
        IN  /\ FitsIn(n_bytes, value) =>
                  /\ ret.exc = NULL
                  /\ Len(Val(ret.val)) = 2 * n_bytes
                  /\ Val(ret.val) = BigEndianHex(n_bytes, value.mag)
            /\ (~ value.neg /\ ByteCount(value.mag) > n_bytes) => ret.exc # NULL
            /\ value.frac => ret.exc # NULL
            /\ value \in PackBigintInputs =>
                  mcy_pack_bigint_big_endian_bytes(n_bytes, value)
                      = mcy_pack_numeric_big_endian_bytes(n_bytes, value)

\* the vectors of the tests come out as the tests expect
PackTestVectorWitness ==
    /\ Packed
    /\ ret.arg = [num_bytes |-> 4, val |-> MkVal(FALSE, <<52445, 43707>>, FALSE)]
    /\ ret.exc = NULL
    /\ Val(ret.val) = <<"a", "a", "b", "b", "c", "c", "d", "d">>

\* the value of a hex character
HexValue(c) == CHOOSE d \in 0..15 : HexDigits[d + 1] = c

RECURSIVE ParseBigEndianHex(_)
\* the magnitude a big-endian hex text stands for
ParseBigEndianHex(chars) ==
    IF chars = <<>> THEN <<>>
    ELSE BigMulAdd(ParseBigEndianHex(SubSeq(chars, 1, Len(chars) - 1)),
                   16, HexValue(chars[Len(chars)]))

\* what the packer named op returns
PackOf(op, num_bytes, val) ==
    IF op = "mcy_pack_bigint_big_endian_bytes"
    THEN mcy_pack_bigint_big_endian_bytes(num_bytes, val)
    ELSE mcy_pack_numeric_big_endian_bytes(num_bytes, val)

\* the values the packer named op is given
PackInputsOf(op) ==
    IF op = "mcy_pack_bigint_big_endian_bytes"
    THEN PackBigintInputs ELSE PackNumericInputs

\* C36 as stated: for every width n and every integer value, negative ones
\* included, parsing the text pack(n, value) returns gives back value if and
\* only if value fits in n bytes, and two different values that pack never
\* give the same text.
PackRoundTrips ==
    (Packed /\ ret.exc = NULL) =>
        LET n == ret.arg.num_bytes
            value == ret.arg.val
            parsed == MkVal(FALSE, ParseBigEndianHex(Val(ret.val)), FALSE)
        IN  /\ (parsed = value) <=> FitsIn(n, value)
            /\ \A other \in PackInputsOf(ret.op) \ {value} :
                  PackOf(ret.op, n, other).exc = NULL =>
                      PackOf(ret.op, n, other).val # ret.val

\* a vector of the tests has been packed and parses back
PackRoundTripWitness ==
    /\ Packed
    /\ ret.arg = [num_bytes |-> 4, val |-> MkVal(FALSE, <<43707>>, FALSE)]
    /\ ret.exc = NULL
    /\ ParseBigEndianHex(Val(ret.val)) = <<43707>>

\* a negative value has been packed: the text is the one of zero
PackNegativeWitness ==
    /\ Packed
    /\ ret.arg.val.neg
    /\ ret.exc = NULL
    /\ ParseBigEndianHex(Val(ret.val)) = <<>>

---------------------------------------------------------------------------
(* SpecAgain: set_recent_blocks called again.  ret.arg keeps the call and  *)
(* whether the call before was the same one.                               *)

AgainEventInputs ==
    {MkEvent(Chan1, <<1, "a">>, Create1), MkEvent(Chan1, <<2, "a">>, Create1),
     MkEvent(Chan1, <<2, "b">>, Deposit1)}

AgainIntentInputs == {MkIntent(Chan1, 1, Create1), MkIntent(Chan1, 2, Deposit1)}

\* <<chain_id, first_block_num, block_hashes>>
AgainReorgInputs ==
    {<<1, 1, <<"a">>>>, <<1, 1, <<"b">>>>, <<1, 2, <<"b">>>>, <<1, 1, <<"a", "b">>>>}

AgainInsertEvent == \E event \in AgainEventInputs : insertChannelEvent(event)

AgainInsertIntent == \E intent \in AgainIntentInputs : insertChannelIntent(intent)

AgainReorg ==
    /\ \E r \in AgainReorgInputs :
          \E o \in mcy_set_recent_blocks(DB, r[1], r[2], r[3]) :
              Commit(o, "setRecentBlocks",
                     [call |-> r,
                      repeats |-> ret.op = "setRecentBlocks" /\ ret.arg.call = r])
    /\ UNCHANGED session

NextAgain == AgainInsertEvent \/ AgainInsertIntent \/ AgainReorg

SpecAgain == Init /\ [][NextAgain]_vars

\* C37: a second set_recent_blocks with the same chain_id, first_block_num
\* and hashes, no insert in between, changes no row and returns
\* updated_event_count = 0 and no updated_channels.
SetRecentBlocksAgainIsNoOp ==
    [][(ret'.op = "setRecentBlocks" /\ ret'.arg.repeats) =>
          /\ DBNext = DB
          /\ ret'.exc = NULL
          /\ ret'.val.updated_event_count = 0
          /\ ret'.val.updated_channels = <<>>]_vars

\* the call has been repeated after it had orphaned an event and taken the
\* block_hash from an intent
SetRecentBlocksAgainWitness ==
    /\ ret.op = "setRecentBlocks"
    /\ ret.arg.repeats
    /\ \E i \in 1..Len(channel_events) :
          /\ channel_events[i].block_is_valid = Some(FALSE)
          /\ \E j \in 1..Len(channel_intents) :
                /\ IntentMatches(channel_intents[j], channel_events[i])
                /\ channel_intents[j].block_hash = NULL

---------------------------------------------------------------------------
(* SpecSum: a caller that inserts state updates of one channel and adds up *)
(* the added_amount of the calls that succeed.  ret.arg keeps the call and *)
(* the caller's total.                                                     *)

SumUpdateInputs ==
    {MkStateUpdate(Chan1, a, TRUE) : a \in {"-1", "0", "1", "2", "3"}}
    \cup {MkStateUpdate(Chan1, "3", FALSE)}

\* what a call's result adds to the total: the added_amount of a success
\* result when it is not null
AddedBy(r) ==
    IF r.exc = NULL /\ "created" \in DOMAIN r.val /\ r.val.added_amount # NULL
    THEN TextToNumeric(Val(r.val.added_amount))
    ELSE 0

SumInsertStateUpdate ==
    /\ UpdateCount < MaxUpdates
    /\ \E su \in SumUpdateInputs :
          \E o \in mcy_insert_state_update(DB, su, TRUE) :
              Commit(o, "insertStateUpdate",
                     [call |-> su,
                      total |-> (IF ret.op = "none" THEN 0 ELSE ret.arg.total)
                                + AddedBy(o.ret)])
    /\ UNCHANGED session

NextSum == SumInsertStateUpdate

SpecSum == Init /\ [][NextSum]_vars

\* C38: over a series of insert_state_update calls on one channel from an
\* empty log, the added_amount values of the successful calls that are not
\* null add up to the channel's current_payment, the highest stored amount
\* (nothing is stored while the total is 0 and no call has succeeded).
AddedAmountsSumToPayment ==
    ret.op = "insertStateUpdate" =>
        \A st \in mcy_get_channel_status(DB, Chan1, TRUE) :
            /\ st.exc = NULL
            /\ IF state_updates = <<>>
               THEN st.val.current_payment = NULL /\ ret.arg.total = 0
               ELSE /\ st.val.current_payment = Some(NumericToText(ret.arg.total))
                    /\ \A i \in 1..Len(state_updates) :
                          state_updates[i].amount <= ret.arg.total
                    /\ \E i \in 1..Len(state_updates) :
                          state_updates[i].amount = ret.arg.total

\* a duplicate of the latest update has added 0 after a lower update had
\* added nothing
AddedAmountsWitness ==
    /\ ret.op = "insertStateUpdate"
    /\ ret.exc = NULL
    /\ "created" \in DOMAIN ret.val
    /\ ~ ret.val.created
    /\ ret.val.added_amount = Some("0")
    /\ ret.arg.total = 2
    /\ \E i, j \in 1..Len(state_updates) :
          i < j /\ state_updates[i].amount > state_updates[j].amount

---------------------------------------------------------------------------
(* SpecAdmit: state updates on a channel that is absent, open, settling,  *)
(* settled or invalid.  One event lacks a field its type requires: it is   *)
(* stored when the fold stops before it.                                   *)

AdmitUpdateInputs ==
    {MkStateUpdate(Chan1, "1", TRUE), MkStateUpdate(Chan1, "2", TRUE),
     MkStateUpdate(Chan1, "2", FALSE), MkStateUpdate(Chan1, "-1", TRUE)}

AdmitEventInputs ==
    {MkEvent(Chan1, <<1, "a">>, Create1), MkEvent(Chan1, <<2, "a">>, StartSettle1),
     MkEvent(Chan1, <<3, "a">>, Settle1), MkEvent(Chan1, <<2, "a">>, CreateNoSender)}

AdmitIntentInputs == {MkIntent(Chan1, 2, Deposit1)}

\* <<chain_id, first_block_num, block_hashes>>
AdmitReorgInputs == {<<1, 1, <<"b", "a">>>>, <<1, 1, <<"a", "a", "a">>>>}

\* the rows of the four tables
AdmitRowCount == RowCount + UpdateCount

AdmitInsertStateUpdate ==
    /\ AdmitRowCount < MaxRows + 1
    /\ \E su \in AdmitUpdateInputs : insertStateUpdate(su)

AdmitInsertEvent ==
    /\ AdmitRowCount < MaxRows + 1
    /\ \E event \in AdmitEventInputs : insertChannelEvent(event)

AdmitInsertIntent ==
    /\ AdmitRowCount < MaxRows + 1
    /\ \E intent \in AdmitIntentInputs : insertChannelIntent(intent)

AdmitReorg == \E r \in AdmitReorgInputs : setRecentBlocks(r[1], r[2], r[3])

NextAdmit ==
    \/ AdmitInsertStateUpdate
    \/ AdmitInsertEvent
    \/ AdmitInsertIntent
    \/ AdmitReorg

SpecAdmit == Init /\ [][NextAdmit]_vars

\* the tables without the events and intents
WithoutEvents(db) == [db EXCEPT !.channel_events = <<>>, !.channel_intents = <<>>]

\* what a result says of the admission
AdmissionOf(r) ==
    IF r.exc # NULL THEN <<"raised", r.exc>>
    ELSE IF "created" \in DOMAIN r.val
    THEN <<"returned", r.val.created, r.val.is_latest, r.val.status.dupe_status,
           r.val.added_amount>>
    ELSE <<"refused", r.val.reason, r.val.status>>

\* C39 as stated: the admission of a state update does not depend on the
\* channel's events: with the same state_updates, insert_state_update gives
\* the same created, is_latest, dupe_status and added_amount (and the same
\* refusal) as on a channel without events, be the channel absent, CS_OPEN,
\* CS_SETTLING, CS_SETTLED or invalid, or its value below the amount.
AdmissionIgnoresEvents ==
    [][ret'.op = "insertStateUpdate" =>
          \A o \in mcy_insert_state_update(WithoutEvents(DB), ret'.arg, TRUE) :
              AdmissionOf(o.ret) = AdmissionOf(ret')]_vars

\* the state the status of Chan1 shows, "none" without a channel
ChannelStateNow ==
    {IF st.exc # NULL \/ st.val.channel = NULL THEN "none"
     ELSE Coalesce(Val(st.val.channel).state, "none")
     : st \in mcy_get_channel_status(DB, Chan1, TRUE)}

\* a state update has been admitted on a settled channel
AdmittedOnSettledWitness ==
    /\ ret.op = "insertStateUpdate"
    /\ ret.exc = NULL
    /\ "created" \in DOMAIN ret.val
    /\ ret.val.created
    /\ ChannelStateNow = {"CS_SETTLED"}

\* a state update has been admitted above the value of a settling channel
AdmittedAboveValueWitness ==
    /\ ret.op = "insertStateUpdate"
    /\ ret.exc = NULL
    /\ "created" \in DOMAIN ret.val
    /\ ret.val.created
    /\ ChannelStateNow = {"CS_SETTLING"}
    /\ ret.val.channel_remaining_balance = Some("-1")

\* a state update has been admitted on an invalid channel
AdmittedOnInvalidWitness ==
    /\ ret.op = "insertStateUpdate"
    /\ ret.exc = NULL
    /\ "created" \in DOMAIN ret.val
    /\ ret.val.created
    /\ \E st \in mcy_get_channel_status(DB, Chan1, TRUE) :
          st.exc = NULL /\ st.val.is_invalid = Some(TRUE)

---------------------------------------------------------------------------
(* Several identical intents answered by one chain event. *)

\* a deposit with the fields of Deposit1 by another sender
DepositOther == <<"s2", "DidDeposit", [value |-> JStr("1")]>>

TwinEventInputs ==
    {MkEvent(Chan1, <<1, "a">>, Create1), MkEvent(Chan1, <<3, "a">>, Deposit1)}

\* the same intent may be inserted more than once
TwinIntentInputs ==
    {MkIntent(Chan1, 2, Deposit1), MkIntent(Chan1, 4, Deposit1),
     MkIntent(Chan1, 2, DepositOther)}

TwinInsertEvent ==
    /\ RowCount < MaxRows + 1
    /\ \E event \in TwinEventInputs :
          \E o \in mcy_insert_channel_event(DB, event) :
              Commit(o, "insertChannelEvent", event)
    /\ UNCHANGED session

TwinInsertIntent ==
    /\ RowCount < MaxRows + 1
    /\ \E intent \in TwinIntentInputs :
          \E o \in mcy_insert_channel_intent(DB, intent) :
              Commit(o, "insertChannelIntent", intent)
    /\ UNCHANGED session

NextTwin == TwinInsertEvent \/ TwinInsertIntent

SpecTwin == Init /\ [][NextTwin]_vars

\* the positions of the intents the inserted event NEW_ matches
AnsweredBy(intents, NEW_) ==
    {i \in 1..Len(intents) : IntentMatches(intents[i], NEW_)}

\* C40: when a chain event is inserted, every stored intent of its channel
\* with its sender, event_type and fields and a block_number not above the
\* event's receives the event's block_hash, however many there are; none of
\* them is among get_channel_events(chan, true) afterwards, the event is
\* there once, and the status with intents is the status of the tables with
\* those intents left out: the event is applied once.
IdenticalIntentsAnsweredOnce ==
    [][(ret'.op = "insertChannelEvent" /\ ret'.exc = NULL) =>
          LET NEW_ == channel_events'[Len(channel_events')]
              answered == AnsweredBy(channel_intents, NEW_)
          IN  /\ Len(channel_intents') = Len(channel_intents)
              /\ \A i \in answered :
                    channel_intents'[i].block_hash = NEW_.block_hash
              /\ \A events \in mcy_get_channel_events(DBNext, NEW_, TRUE) :
                    /\ \A k \in 1..Len(events) :
                          \A i \in answered : events[k] # channel_intents'[i]
                    /\ Cardinality({k \in 1..Len(events) : events[k] = NEW_}) = 1
              /\ mcy_get_channel_status(DBNext, NEW_, TRUE)
                     = mcy_get_channel_status(
                           [DBNext EXCEPT !.channel_intents =
                               SelectSeq(channel_intents',
                                         LAMBDA ci : ~ IntentMatches(ci, NEW_))],
                           NEW_, TRUE)]_vars

\* two identical DidDeposit intents carry the hash of the one chain deposit
\* inserted after them, and the channel created with value 0 has value 1
IdenticalIntentsWitness ==
    /\ ret.op = "insertChannelEvent"
    /\ ret.exc = NULL
    /\ ret.arg.event_type = "DidDeposit"
    /\ \E i, j \in 1..Len(channel_intents) :
          /\ i < j
          /\ channel_intents[i].sender = channel_intents[j].sender
          /\ channel_intents[i].event_type = channel_intents[j].event_type
          /\ channel_intents[i].fields = channel_intents[j].fields
          /\ channel_intents[i].block_number = channel_intents[j].block_number
          /\ channel_intents[i].sender = ret.arg.sender
          /\ channel_intents[i].block_hash = Some(ret.arg.block_hash)
          /\ channel_intents[j].block_hash = Some(ret.arg.block_hash)
    /\ \A st \in mcy_get_channel_status(DB, Chan1, TRUE) :
          /\ st.exc = NULL
          /\ st.val.channel # NULL
          /\ Val(st.val.channel).value = Some("1")

====
